---- MODULE Spec2Model ----
(***************************************************************************)
(* GraphGuard agent workflow (backend/agents/workflow.py) and the          *)
(* enhanced detector of backend/agents/detector_enhanced.py.               *)
(*                                                                         *)
(* One run of AgentWorkflow.run drives the LangGraph state graph built by  *)
(* _build_graph: a node is executed, the dict it returns is merged into    *)
(* the run state (AgentState) channel by channel, and the conditional      *)
(* edge of that node selects the next node or END.                         *)
(*                                                                         *)
(* Conventions of the model                                                *)
(*  - a Python dict is a function; a missing key is a key outside DOMAIN;  *)
(*    dict.get(k, d) is Get(m, k, d).                                      *)
(*  - None (an unset AgentDecision) is the record None.                    *)
(*  - confidences are kept in hundredths (0.3 is 30, 1.0 is 100).          *)
(*  - a decision label is the sequence of its parts; the Python string is  *)
(*    the parts joined by "_" ("detection_error" is <<"detection",         *)
(*    "error">>, f"monitoring_{s}" is <<"monitoring", s>>).                *)
(*  - the edges of a batch are kept as a bag: the number of edges of each  *)
(*    kind (connection_type, attack_type); the nodes as their number.      *)
(*    _orchestrator_node only counts them.                                 *)
(*                                                                         *)
(* Specifications                                                          *)
(*  Spec           one call of AgentWorkflow.run                           *)
(*  RouteSpec      the three routing functions on any metadata             *)
(*  StreamSpec     one call of AgentWorkflow.run_streaming                 *)
(*  SessionSpec    calls of run that share an instance and its thread      *)
(*  ScoreSpec      _orchestrator_node on batches that reach every rule     *)
(*  SignatureSpec  EnhancedDetectorAgent._analyze_edges                    *)
(*  CoordinatedSpec  EnhancedDetectorAgent._detect_coordinated_attacks     *)
(*  ThreatLevelSpec  EnhancedDetectorAgent._calculate_threat_level         *)
(*  NodesSpec      EnhancedDetectorAgent._analyze_nodes                    *)
(*  ProcessSpec    calls of process on the agent enhanced_detector         *)
(***************************************************************************)
EXTENDS Integers, Sequences, FiniteSets, TLC

VARIABLES
    state,      \* the AgentState of the run (the graph's channel values)
    pc,         \* "idle", the node to execute next, "END", "raised", or "closed"
    history,    \* the nodes that have returned, in the order they returned
    llm,        \* per stage, what its external reasoning call did in this run
    events,     \* what run_streaming has yielded to its consumer, in order
    sessions,   \* the runs of AgentWorkflow.run on one instance: state and pc of each
    memory,     \* the MemorySaver checkpoint of thread "agent_session_1"
    enhanced    \* EnhancedDetectorAgent: the edges analysed and the detections returned

vars == <<state, pc, history, llm, events, sessions, memory, enhanced>>

\* the variables of one run of the graph, of the runs that share an
\* instance, and of everything but one run of the graph
runVars == <<state, pc, history, llm>>

sessionVars == <<sessions, memory>>

notRunVars == <<events, sessions, memory, enhanced>>

-----------------------------------------------------------------------------
(* Bounds of the model *)

MaxCount == 1           \* edges of one kind in an input batch

NodeCounts == {0, 5}    \* len(input_data["nodes"]) of an input batch

-----------------------------------------------------------------------------
(* Python values *)

None == [agent_id |-> "None"]

Missing == "<missing>"

Get(m, k, d) == IF k \in DOMAIN m THEN m[k] ELSE d

EmptyDict == [k \in {} |-> 0]

\* every dict whose keys are among K and whose values are in V
Dicts(K, V) == UNION {[D -> V] : D \in SUBSET K}

Label(prefix, last) == <<prefix, last>>

AgentDecision(agent_id, decision, confidence, metadata) ==
    [agent_id |-> agent_id, decision |-> decision,
     confidence |-> confidence, metadata |-> metadata]

Stages == {"orchestrator", "detector", "investigator", "monitor", "judge", "mitigator"}

LLMStages == Stages \ {"orchestrator"}

-----------------------------------------------------------------------------
(* Input batches *)

EdgeKinds ==
    { [connection_type |-> "normal",     attack_type |-> Missing],
      [connection_type |-> "suspicious", attack_type |-> Missing],
      [connection_type |-> "attack",     attack_type |-> "Ransomware"] }

Batches == { [nodes |-> n, edges |-> e] : n \in NodeCounts, e \in [EdgeKinds -> 0..MaxCount] }

Contexts == { EmptyDict, [request_id |-> "r1"] }

\* edge.get("attack_type", "Unknown")
AttackTypeOf(k) == IF k.attack_type = Missing THEN "Unknown" ELSE k.attack_type

IsAttack(k) == k.connection_type = "attack"

IsSuspicious(k) == k.connection_type = "suspicious"

RECURSIVE SumOver(_, _)
SumOver(f, S) ==
    IF S = {} THEN 0
    ELSE LET x == CHOOSE y \in S : TRUE IN f[x] + SumOver(f, S \ {x})

\* number of edges of the bag whose kind is one of kinds
CountEdges(edges, kinds) == SumOver(edges, kinds \cap DOMAIN edges)

AttackKinds(edges) == {k \in DOMAIN edges : IsAttack(k)}

SuspiciousKinds(edges) == {k \in DOMAIN edges : IsSuspicious(k)}

-----------------------------------------------------------------------------
(* Scoring rules of the orchestrator (workflow.py, _orchestrator_node) *)

\* the attack_types frequency table: a key for every type that occurs
AttackTypesOf_typed_only(edges) ==
    LET present == {k \in DOMAIN edges :
                       IsAttack(k) /\ edges[k] > 0 /\ k.attack_type # Missing}
        names   == {AttackTypeOf(k) : k \in present}
    IN  [t \in names |-> CountEdges(edges, {k \in AttackKinds(edges) : AttackTypeOf(k) = t})]

AttackTypesOf(edges) ==
    LET present == {k \in DOMAIN edges : IsAttack(k) /\ edges[k] > 0}
        names   == {AttackTypeOf(k) : k \in present}
    IN  [t \in names |-> CountEdges(edges, {k \in AttackKinds(edges) : AttackTypeOf(k) = t})]

\* attack_count / total_edges > pct / 100, the ratio being 0 when total_edges = 0
AttackRatioAbove(attack_count, total_edges, pct) ==
    total_edges > 0 /\ 100 * attack_count > pct * total_edges

\* attack_ratio + suspicious_ratio * 0.5 > 0.10
ThreatRatioAboveTenth(attack_count, suspicious_count, total_edges) ==
    total_edges > 0 /\ 10 * (2 * attack_count + suspicious_count) > 2 * total_edges

\* variant: the comparisons of the rules are not strict
BaseRule_not_strict(attack_count, suspicious_count, total_edges) ==
    IF attack_count >= 20 \/ (total_edges > 0 /\ 100 * attack_count >= 25 * total_edges)
    THEN [threat_level |-> "CRITICAL", priority |-> "immediate", workflow_mode |-> "full_analysis"]
    ELSE IF attack_count >= 10 \/ (total_edges > 0 /\ 100 * attack_count >= 15 * total_edges)
    THEN [threat_level |-> "HIGH", priority |-> "high", workflow_mode |-> "full_analysis"]
    ELSE IF attack_count >= 3 \/ suspicious_count >= 15
            \/ (total_edges > 0 /\ 10 * (2 * attack_count + suspicious_count) >= 2 * total_edges)
    THEN [threat_level |-> "MEDIUM", priority |-> "elevated", workflow_mode |-> "full_analysis"]
    ELSE IF suspicious_count >= 5 \/ attack_count > 0
    THEN [threat_level |-> "LOW", priority |-> "standard", workflow_mode |-> "full_analysis"]
    ELSE [threat_level |-> "NONE", priority |-> "monitoring_only", workflow_mode |-> "monitoring_only"]

\* rules 1 to 5, first match wins
BaseRule(attack_count, suspicious_count, total_edges) ==
    IF attack_count > 20 \/ AttackRatioAbove(attack_count, total_edges, 25)
    THEN [threat_level |-> "CRITICAL", priority |-> "immediate", workflow_mode |-> "full_analysis"]
    ELSE IF attack_count > 10 \/ AttackRatioAbove(attack_count, total_edges, 15)
    THEN [threat_level |-> "HIGH", priority |-> "high", workflow_mode |-> "full_analysis"]
    ELSE IF attack_count > 3 \/ suspicious_count > 15
            \/ ThreatRatioAboveTenth(attack_count, suspicious_count, total_edges)
    THEN [threat_level |-> "MEDIUM", priority |-> "elevated", workflow_mode |-> "full_analysis"]
    ELSE IF suspicious_count > 5 \/ attack_count > 0
    THEN [threat_level |-> "LOW", priority |-> "standard", workflow_mode |-> "full_analysis"]
    ELSE [threat_level |-> "NONE", priority |-> "monitoring_only", workflow_mode |-> "monitoring_only"]

\* variant: the frequency of "DDoS Volumetric" is not compared with 5
DdosDetected_no_threshold(attack_types) ==
    Get(attack_types, "DDoS Volumetric", 0) >= 0

DdosDetected(attack_types) ==
    "DDoS Volumetric" \in DOMAIN attack_types /\ attack_types["DDoS Volumetric"] > 5

sophisticated_attacks == {"APT Exfiltration", "Zero-Day Exploit", "Ransomware"}

AptDetected(attack_types) == \E a \in sophisticated_attacks : a \in DOMAIN attack_types

\* variant: the second special case sets the priority and leaves the level
ApplyOverrides_apt_keeps_level(base, attack_types) ==
    LET afterDdos ==
            IF DdosDetected(attack_types)
            THEN [base EXCEPT !.threat_level = "CRITICAL", !.priority = "immediate"]
            ELSE base
    IN  IF AptDetected(attack_types)
        THEN [afterDdos EXCEPT !.priority = "high"]
        ELSE afterDdos

\* the two special cases applied after the base rule, in the order of the code
ApplyOverrides(base, attack_types) ==
    LET afterDdos ==
            IF DdosDetected(attack_types)
            THEN [base EXCEPT !.threat_level = "CRITICAL", !.priority = "immediate"]
            ELSE base
    IN  IF AptDetected(attack_types)
        THEN [afterDdos EXCEPT
                !.threat_level = IF @ = "LOW" THEN "HIGH" ELSE @,
                !.priority = "high"]
        ELSE afterDdos

\* variant: the number of nodes is tested before the number of edges
OrchestratorConfidence_nodes_first(total_edges, total_nodes) ==
    IF total_nodes < 5 THEN 80
    ELSE IF total_edges = 0 THEN 30
    ELSE IF total_edges < 10 THEN 70
    ELSE 100

\* confidence from data completeness, in hundredths
OrchestratorConfidence(total_edges, total_nodes) ==
    IF total_edges = 0 THEN 30
    ELSE IF total_edges < 10 THEN 70
    ELSE IF total_nodes < 5 THEN 80
    ELSE 100

AgentPriorities(level, attack_count, suspicious_count, total_edges) ==
    [detector     |-> IF ThreatRatioAboveTenth(attack_count, suspicious_count, total_edges)
                      THEN "high" ELSE "standard",
     investigator |-> IF attack_count > 5 THEN "high" ELSE "standard",
     monitor      |-> "standard",
     judge        |-> IF level \in {"CRITICAL", "HIGH"} THEN "high" ELSE "standard",
     mitigator    |-> IF level = "CRITICAL" THEN "immediate" ELSE "standard"]

\* variant: the nodes are counted on top of the stages the state it is given
\* lists as completed
orchestrator_node_counts_completed(s) ==
    LET edges            == s.input_data.edges
        total_nodes      == s.input_data.nodes + Len(s.completed_agents)
        total_edges      == CountEdges(edges, DOMAIN edges)
        attack_count     == CountEdges(edges, AttackKinds(edges))
        suspicious_count == CountEdges(edges, SuspiciousKinds(edges))
        normal_count     == CountEdges(edges, DOMAIN edges \ (AttackKinds(edges) \cup SuspiciousKinds(edges)))
        attack_types     == AttackTypesOf(edges)
        rule             == ApplyOverrides(BaseRule(attack_count, suspicious_count, total_edges),
                                           attack_types)
        ddos_detected    == DdosDetected(attack_types)
        apt_detected     == AptDetected(attack_types)
        agent_priorities == AgentPriorities(rule.threat_level, attack_count,
                                            suspicious_count, total_edges)
        analysis ==
            [threat_level |-> rule.threat_level, priority |-> rule.priority,
             workflow_mode |-> rule.workflow_mode,
             total_nodes |-> total_nodes, total_edges |-> total_edges,
             attack_count |-> attack_count, suspicious_count |-> suspicious_count,
             normal_count |-> normal_count, attack_types |-> attack_types,
             ddos_detected |-> ddos_detected, apt_detected |-> apt_detected,
             agent_priorities |-> agent_priorities]
        decision ==
            AgentDecision("orchestrator",
                Label("route_workflow", rule.workflow_mode),
                OrchestratorConfidence(total_edges, total_nodes),
                [threat_level |-> rule.threat_level, priority |-> rule.priority,
                 workflow_mode |-> rule.workflow_mode,
                 agent_priorities |-> agent_priorities,
                 ddos_detected |-> ddos_detected, apt_detected |-> apt_detected,
                 statistics |-> [total_nodes |-> total_nodes, total_edges |-> total_edges,
                                 attack_count |-> attack_count,
                                 suspicious_count |-> suspicious_count,
                                 attack_types |-> attack_types]])
    IN  [s EXCEPT
            !.orchestrator_decision = decision,
            !.context = ("orchestrator_analysis" :> analysis) @@ s.context,
            !.current_step = "orchestrator",
            !.completed_agents = <<"orchestrator">>,
            !.should_continue = TRUE]

\* the dict _orchestrator_node returns: the state it was given, with its
\* decision, the enriched context and the workflow-control keys assigned
orchestrator_node(s) ==
    LET edges            == s.input_data.edges
        total_nodes      == s.input_data.nodes
        total_edges      == CountEdges(edges, DOMAIN edges)
        attack_count     == CountEdges(edges, AttackKinds(edges))
        suspicious_count == CountEdges(edges, SuspiciousKinds(edges))
        normal_count     == CountEdges(edges, DOMAIN edges \ (AttackKinds(edges) \cup SuspiciousKinds(edges)))
        attack_types     == AttackTypesOf(edges)
        rule             == ApplyOverrides(BaseRule(attack_count, suspicious_count, total_edges),
                                           attack_types)
        ddos_detected    == DdosDetected(attack_types)
        apt_detected     == AptDetected(attack_types)
        agent_priorities == AgentPriorities(rule.threat_level, attack_count,
                                            suspicious_count, total_edges)
        analysis ==
            [threat_level |-> rule.threat_level, priority |-> rule.priority,
             workflow_mode |-> rule.workflow_mode,
             total_nodes |-> total_nodes, total_edges |-> total_edges,
             attack_count |-> attack_count, suspicious_count |-> suspicious_count,
             normal_count |-> normal_count, attack_types |-> attack_types,
             ddos_detected |-> ddos_detected, apt_detected |-> apt_detected,
             agent_priorities |-> agent_priorities]
        decision ==
            AgentDecision("orchestrator",
                Label("route_workflow", rule.workflow_mode),
                OrchestratorConfidence(total_edges, total_nodes),
                [threat_level |-> rule.threat_level, priority |-> rule.priority,
                 workflow_mode |-> rule.workflow_mode,
                 agent_priorities |-> agent_priorities,
                 ddos_detected |-> ddos_detected, apt_detected |-> apt_detected,
                 statistics |-> [total_nodes |-> total_nodes, total_edges |-> total_edges,
                                 attack_count |-> attack_count,
                                 suspicious_count |-> suspicious_count,
                                 attack_types |-> attack_types]])
    IN  [s EXCEPT
            !.orchestrator_decision = decision,
            !.context = ("orchestrator_analysis" :> analysis) @@ s.context,
            !.current_step = "orchestrator",
            !.completed_agents = <<"orchestrator">>,
            !.should_continue = TRUE]

-----------------------------------------------------------------------------
(* Routing (workflow.py, _route_after_* and the edges of _build_graph) *)

\* variant: the threat level is tested before the workflow mode
route_after_orchestrator_level_first(s) ==
    IF s.orchestrator_decision = None THEN "full_analysis"
    ELSE LET metadata      == s.orchestrator_decision.metadata
             threat_level  == Get(metadata, "threat_level", "NONE")
             workflow_mode == Get(metadata, "workflow_mode", "full_analysis")
         IN  IF threat_level = "NONE" THEN "skip_to_judge"
             ELSE IF workflow_mode = "monitoring_only" THEN "monitoring_only"
             ELSE "full_analysis"

route_after_orchestrator(s) ==
    IF s.orchestrator_decision = None THEN "full_analysis"
    ELSE LET metadata      == s.orchestrator_decision.metadata
             threat_level  == Get(metadata, "threat_level", "NONE")
             workflow_mode == Get(metadata, "workflow_mode", "full_analysis")
         IN  IF workflow_mode = "monitoring_only" THEN "monitoring_only"
             ELSE IF threat_level = "NONE" THEN "skip_to_judge"
             ELSE "full_analysis"

\* variant: the recommended action alone decides, threats_detected is not read
route_after_detector_ignores_threats(s) ==
    IF s.detector_decision = None THEN "no_threats"
    ELSE LET metadata           == s.detector_decision.metadata
             overall_assessment == Get(metadata, "overall_assessment", EmptyDict)
             recommended_action == Get(overall_assessment, "recommended_action", "none")
         IN  IF recommended_action \in {"investigate", "immediate_response"}
             THEN "investigate"
             ELSE IF recommended_action = "monitor" THEN "skip_to_monitor"
             ELSE "no_threats"

route_after_detector(s) ==
    IF s.detector_decision = None THEN "no_threats"
    ELSE LET metadata           == s.detector_decision.metadata
             threats_detected   == Get(metadata, "threats_detected", <<>>)
             overall_assessment == Get(metadata, "overall_assessment", EmptyDict)
             recommended_action == Get(overall_assessment, "recommended_action", "none")
         IN  IF Len(threats_detected) > 0
                /\ recommended_action \in {"investigate", "immediate_response"}
             THEN "investigate"
             ELSE IF recommended_action = "monitor" THEN "skip_to_monitor"
             ELSE "no_threats"

\* variant: the approval of the automated response is tested before the
\* request for human intervention
route_after_judge_action_first(s) ==
    IF s.judge_decision = None THEN "no_action"
    ELSE LET metadata           == s.judge_decision.metadata
             final_assessment   == Get(metadata, "final_assessment", EmptyDict)
             requires_action    == Get(final_assessment, "requires_immediate_action", FALSE)
             automated_approved == Get(final_assessment, "automated_response_approved", FALSE)
             human_required     == Get(final_assessment, "human_intervention_required", FALSE)
         IN  IF requires_action /\ automated_approved THEN "mitigate"
             ELSE IF human_required THEN "human_review"
             ELSE "no_action"

route_after_judge(s) ==
    IF s.judge_decision = None THEN "no_action"
    ELSE LET metadata           == s.judge_decision.metadata
             final_assessment   == Get(metadata, "final_assessment", EmptyDict)
             requires_action    == Get(final_assessment, "requires_immediate_action", FALSE)
             automated_approved == Get(final_assessment, "automated_response_approved", FALSE)
             human_required     == Get(final_assessment, "human_intervention_required", FALSE)
         IN  IF human_required THEN "human_review"
             ELSE IF requires_action /\ automated_approved THEN "mitigate"
             ELSE "no_action"

\* the path maps of add_conditional_edges and the plain edges of add_edge
OrchestratorEdges ==
    [full_analysis |-> "detector", monitoring_only |-> "monitor", skip_to_judge |-> "judge"]

DetectorEdges ==
    [investigate |-> "investigator", skip_to_monitor |-> "monitor", no_threats |-> "monitor"]

JudgeEdges == [mitigate |-> "mitigator", no_action |-> "END", human_review |-> "END"]

InvestigatorEdge_to_monitor ==
    "monitor"

InvestigatorEdge ==
    "judge"

MonitorEdge == "judge"

MitigatorEdge == "END"

EntryPoint == "orchestrator"

\* the update a node returns, applied to the channels of AgentState: every
\* key takes the returned value, completed_agents (Annotated[List[str], add])
\* takes the old list followed by the returned list
Merge(old, returned) ==
    [returned EXCEPT !.completed_agents = old.completed_agents \o returned.completed_agents]

-----------------------------------------------------------------------------
(* The external reasoning call of a stage, inside the try of its node:      *)
(*  Raise       chain.ainvoke raises;                                       *)
(*  Unparsable  the call returns and json.loads (or the reading of the      *)
(*              parsed fields that follows it inside the try) raises;       *)
(*  Ok(data)    json.loads returns the dict `data`.                         *)

Raise == [kind |-> "raise"]

Unparsable == [kind |-> "unparsable"]

Ok(data) == [kind |-> "ok", data |-> data]

\* the dicts with no key, or with the key k bound to a value of V
OptionalKey(k, V) == {EmptyDict} \cup {k :> v : v \in V}

RECURSIVE SumOf(_, _, _)
\* sum(item.get(key, default) for item in items)
SumOf(items, key, default) ==
    IF Len(items) = 0 THEN 0
    ELSE Get(Head(items), key, default) + SumOf(Tail(items), key, default)

\* round(sum / len, 2) in hundredths; the replies of the model carry
\* values whose mean is a whole number of hundredths
Mean(items, key, default) == SumOf(items, key, default) \div Len(items)

Threat(c) == [threat_type |-> "heavy_hitter", confidence |-> c]

RecommendedActions == {"none", "monitor", "investigate", "immediate_response"}

DetectorAssessments ==
    {a @@ b : a \in OptionalKey("recommended_action", RecommendedActions),
              b \in OptionalKey("total_threats", {2})}

DetectorData ==
    {a @@ b : a \in OptionalKey("threats_detected", {<<>>, <<Threat(60), Threat(90)>>}),
              b \in OptionalKey("overall_assessment", DetectorAssessments)}

DetectorReplies == {Raise, Unparsable} \cup {Ok(d) : d \in DetectorData}

InvestigatorData ==
    { EmptyDict,
      [investigations |-> <<[confidence |-> 80]>>,
       overall_assessment |-> [requires_immediate_action |-> TRUE, total_investigations |-> 1]] }

InvestigatorReplies == {Raise, Unparsable} \cup {Ok(d) : d \in InvestigatorData}

MonitorData == { EmptyDict, [network_status |-> "healthy", health_score |-> 90] }

MonitorReplies == {Raise, Unparsable} \cup {Ok(d) : d \in MonitorData}

JudgeFlags ==
    {"requires_immediate_action", "automated_response_approved", "human_intervention_required"}

FinalAssessments ==
    {EmptyDict} \cup
    {f @@ [threat_level |-> "HIGH", confidence |-> 95] : f \in Dicts(JudgeFlags, BOOLEAN)}

JudgeData == OptionalKey("final_assessment", FinalAssessments)

JudgeReplies == {Raise, Unparsable} \cup {Ok(d) : d \in JudgeData}

MitigatorData ==
    { EmptyDict,
      [mitigation_actions |-> <<[action_type |-> "block_ip", severity |-> "critical",
                                 automated |-> TRUE, success_probability |-> 80]>>] }

MitigatorReplies == {Raise, Unparsable} \cup {Ok(d) : d \in MitigatorData}

-----------------------------------------------------------------------------
(* Detector (workflow.py, _detector_node) *)

\* llm_prompt_text is assigned inside the try, after chain.ainvoke has
\* returned (line 593), and read after the try/except (line 664): when the
\* call raises, the except branch runs and the read raises UnboundLocalError
detector_raises(reply) == reply.kind = "raise"

\* the values the try/except leaves behind
detector_outcome(reply) ==
    IF reply.kind = "ok"
    THEN LET threats_detected   == Get(reply.data, "threats_detected", <<>>)
             overall_assessment == Get(reply.data, "overall_assessment", EmptyDict)
             total_threats      == Get(overall_assessment, "total_threats", 0)
             recommended_action == Get(overall_assessment, "recommended_action", Missing)
         IN  [threats_detected   |-> threats_detected,
              overall_assessment |-> overall_assessment,
              decision |->
                  IF total_threats = 0 THEN Label("no_threats", "detected")
                  ELSE IF recommended_action = "immediate_response"
                       THEN Label("critical_threats", "detected")
                  ELSE IF recommended_action = "investigate"
                       THEN Label("threats_require", "investigation")
                  ELSE Label("threats_detected", "monitoring"),
              confidence |->
                  IF Len(threats_detected) > 0
                  THEN Mean(threats_detected, "confidence", 0)
                  ELSE 95]
    ELSE [threats_detected   |-> <<>>,
          overall_assessment |-> [total_threats |-> 0, critical_threats |-> 0,
                                  high_confidence_threats |-> 0,
                                  recommended_action |-> "none"],
          decision   |-> Label("detection", "error"),
          confidence |-> 30]

detector_node(s, reply) ==
    LET o == detector_outcome(reply)
    IN  [s EXCEPT
            !.detector_decision =
                AgentDecision("detector", o.decision, o.confidence,
                    [threats_detected   |-> o.threats_detected,
                     overall_assessment |-> o.overall_assessment,
                     llm_powered        |-> TRUE]),
            !.current_step = "detector",
            !.completed_agents = s.completed_agents \o <<"detector">>]

-----------------------------------------------------------------------------
(* Investigator (workflow.py, _investigator_node) *)

investigator_outcome(reply) ==
    IF reply.kind = "ok"
    THEN LET investigations     == Get(reply.data, "investigations", <<>>)
             overall_assessment == Get(reply.data, "overall_assessment", EmptyDict)
         IN  [investigations     |-> investigations,
              overall_assessment |-> overall_assessment,
              decision |->
                  IF Get(overall_assessment, "requires_immediate_action", FALSE)
                  THEN Label("critical_threats", "confirmed")
                  ELSE IF Get(overall_assessment, "attack_in_progress", FALSE)
                  THEN Label("active_attack", "confirmed")
                  ELSE IF Get(overall_assessment, "coordinated_attack", FALSE)
                  THEN Label("coordinated_campaign", "detected")
                  ELSE IF Get(overall_assessment, "total_investigations", 0) > 0
                  THEN Label("threats", "investigated")
                  ELSE Label("no_actionable", "threats"),
              confidence |->
                  IF Len(investigations) > 0
                  THEN Mean(investigations, "confidence", 0)
                  ELSE 90]
    ELSE [investigations     |-> <<>>,
          overall_assessment |-> [total_investigations |-> 0, critical_investigations |-> 0,
                                  coordinated_attack |-> FALSE, attack_in_progress |-> FALSE,
                                  recommended_priority |-> "low",
                                  requires_immediate_action |-> FALSE],
          decision   |-> Label("investigation", "error"),
          confidence |-> 30]

investigator_node(s, reply) ==
    LET o == investigator_outcome(reply)
    IN  [s EXCEPT
            !.investigator_decision =
                AgentDecision("investigator", o.decision, o.confidence,
                    [investigations     |-> o.investigations,
                     overall_assessment |-> o.overall_assessment,
                     llm_powered        |-> TRUE]),
            !.current_step = "investigator",
            !.completed_agents = s.completed_agents \o <<"investigator">>]

-----------------------------------------------------------------------------
(* Monitor (workflow.py, _monitor_node) *)

monitor_outcome(reply) ==
    IF reply.kind = "ok"
    THEN [network_status |-> Get(reply.data, "network_status", "unknown"),
          health_score   |-> Get(reply.data, "health_score", 50),
          confidence     |-> 90]
    ELSE [network_status |-> "unknown",
          health_score   |-> 50,
          confidence     |-> 30]

monitor_node(s, reply) ==
    LET o == monitor_outcome(reply)
    IN  [s EXCEPT
            !.monitor_decision =
                AgentDecision("monitor", Label("monitoring", o.network_status), o.confidence,
                    [network_status |-> o.network_status,
                     health_score   |-> o.health_score,
                     llm_powered    |-> TRUE]),
            !.current_step = "monitor",
            !.completed_agents = s.completed_agents \o <<"monitor">>]

-----------------------------------------------------------------------------
(* Judge (workflow.py, _judge_node) *)

judge_outcome_approves_on_error(reply) ==
    IF reply.kind = "ok"
    THEN LET final_assessment == Get(reply.data, "final_assessment", EmptyDict)
             threat_level     == Get(final_assessment, "threat_level", "NONE")
         IN  [final_assessment |-> final_assessment,
              decision |->
                  IF threat_level = "CRITICAL" THEN Label("critical_threat", "confirmed")
                  ELSE IF threat_level = "HIGH" THEN Label("high_threat", "confirmed")
                  ELSE IF threat_level = "MEDIUM" THEN Label("medium_threat", "confirmed")
                  ELSE IF threat_level = "LOW" THEN Label("low_threat", "confirmed")
                  ELSE Label("no_threat", "detected"),
              confidence |-> Get(final_assessment, "confidence", 80)]
    ELSE [final_assessment |-> [threat_level |-> "NONE", confidence |-> 50,
                                requires_immediate_action |-> TRUE,
                                automated_response_approved |-> TRUE],
          decision   |-> Label("judgment", "error"),
          confidence |-> 30]

judge_outcome(reply) ==
    IF reply.kind = "ok"
    THEN LET final_assessment == Get(reply.data, "final_assessment", EmptyDict)
             threat_level     == Get(final_assessment, "threat_level", "NONE")
         IN  [final_assessment |-> final_assessment,
              decision |->
                  IF threat_level = "CRITICAL" THEN Label("critical_threat", "confirmed")
                  ELSE IF threat_level = "HIGH" THEN Label("high_threat", "confirmed")
                  ELSE IF threat_level = "MEDIUM" THEN Label("medium_threat", "confirmed")
                  ELSE IF threat_level = "LOW" THEN Label("low_threat", "confirmed")
                  ELSE Label("no_threat", "detected"),
              confidence |-> Get(final_assessment, "confidence", 80)]
    ELSE [final_assessment |-> [threat_level |-> "NONE", confidence |-> 50],
          decision   |-> Label("judgment", "error"),
          confidence |-> 30]

judge_decision(reply) ==
    LET o == judge_outcome(reply)
    IN  AgentDecision("judge", o.decision, o.confidence,
            [final_assessment |-> o.final_assessment, llm_powered |-> TRUE])

judge_node(s, reply) ==
    [s EXCEPT
        !.judge_decision = judge_decision(reply),
        !.final_decision = judge_decision(reply),
        !.current_step = "judge",
        !.completed_agents = s.completed_agents \o <<"judge">>]

-----------------------------------------------------------------------------
(* Mitigator (workflow.py, _mitigator_node) *)

mitigator_outcome(reply) ==
    IF reply.kind = "ok"
    THEN LET mitigation_actions == Get(reply.data, "mitigation_actions", <<>>)
             idx == 1..Len(mitigation_actions)
         IN  [mitigation_actions |-> mitigation_actions,
              decision |->
                  IF \A i \in idx : Get(mitigation_actions[i], "action_type", Missing) = "none"
                  THEN Label("no_mitigation", "required")
                  ELSE IF \E i \in idx : Get(mitigation_actions[i], "severity", Missing) = "critical"
                  THEN Label("critical_mitigation", "executed")
                  ELSE IF \E i \in idx : Get(mitigation_actions[i], "automated", FALSE)
                  THEN Label("automated_mitigation", "executed")
                  ELSE Label("mitigation", "planned"),
              confidence |->
                  IF Len(mitigation_actions) > 0
                  THEN Mean(mitigation_actions, "success_probability", 50)
                  ELSE 90]
    ELSE [mitigation_actions |-> <<[action_type |-> "none"]>>,
          decision   |-> Label("mitigation", "error"),
          confidence |-> 30]

mitigator_decision(reply) ==
    LET o == mitigator_outcome(reply)
    IN  AgentDecision("mitigator", o.decision, o.confidence,
            [mitigation_actions |-> o.mitigation_actions, llm_powered |-> TRUE])

\* variant: the mitigator also assigns final_decision
mitigator_node_sets_final(s, reply) ==
    [s EXCEPT
        !.mitigator_decision = mitigator_decision(reply),
        !.final_decision = mitigator_decision(reply),
        !.current_step = "mitigator",
        !.completed_agents = s.completed_agents \o <<"mitigator">>]

\* final_decision is not assigned: the Judge has already set it
mitigator_node(s, reply) ==
    [s EXCEPT
        !.mitigator_decision = mitigator_decision(reply),
        !.current_step = "mitigator",
        !.completed_agents = s.completed_agents \o <<"mitigator">>]

-----------------------------------------------------------------------------
(* One run (workflow.py, AgentWorkflow.run) *)

initial_state(input_data, context) ==
    [input_data            |-> input_data,
     context               |-> context,
     orchestrator_decision |-> None,
     detector_decision     |-> None,
     investigator_decision |-> None,
     monitor_decision      |-> None,
     judge_decision        |-> None,
     mitigator_decision    |-> None,
     current_step          |-> "",
     completed_agents      |-> <<>>,
     should_continue       |-> TRUE,
     final_decision        |-> None]

\* no run has been started on the compiled graph
NoBatch == [nodes |-> 0, edges |-> [k \in EdgeKinds |-> 0]]

NoRunYet == [s \in LLMStages |-> "idle"]

\* MemorySaver() holds no checkpoint
NoCheckpoint == [thread_id |-> "None"]

MaxRuns == 2            \* calls of AgentWorkflow.run on one instance

RunIds == 1..MaxRuns

NotStarted == [state |-> initial_state(NoBatch, EmptyDict), pc |-> "idle"]

\* _analyze_edges has not been called
NotCalled == [edges |-> <<>>, detections |-> <<>>, returned |-> FALSE]

Init ==
    /\ state = initial_state(NoBatch, EmptyDict)
    /\ pc = "idle"
    /\ history = <<>>
    /\ llm = NoRunYet
    /\ events = <<>>
    /\ sessions = [r \in RunIds |-> NotStarted]
    /\ memory = NoCheckpoint
    /\ enhanced = NotCalled

Run ==
    /\ pc = "idle"
    /\ \E input_data \in Batches, context \in Contexts :
          state' = initial_state(input_data, context)
    /\ pc' = EntryPoint
    /\ UNCHANGED <<history, llm>>
    /\ UNCHANGED notRunVars

OrchestratorNode ==
    /\ pc = "orchestrator"
    /\ state' = Merge(state, orchestrator_node(state))
    /\ pc' = OrchestratorEdges[route_after_orchestrator(state')]
    /\ history' = Append(history, "orchestrator")
    /\ UNCHANGED llm
    /\ UNCHANGED notRunVars

DetectorNode ==
    /\ pc = "detector"
    /\ \E reply \in DetectorReplies :
          /\ llm' = [llm EXCEPT !.detector = reply.kind]
          /\ IF detector_raises(reply)
             THEN /\ pc' = "raised"
                  /\ UNCHANGED <<state, history>>
             ELSE /\ state' = Merge(state, detector_node(state, reply))
                  /\ pc' = DetectorEdges[route_after_detector(state')]
                  /\ history' = Append(history, "detector")
    /\ UNCHANGED notRunVars

InvestigatorNode ==
    /\ pc = "investigator"
    /\ \E reply \in InvestigatorReplies :
          /\ llm' = [llm EXCEPT !.investigator = reply.kind]
          /\ state' = Merge(state, investigator_node(state, reply))
    /\ pc' = InvestigatorEdge
    /\ history' = Append(history, "investigator")
    /\ UNCHANGED notRunVars

MonitorNode ==
    /\ pc = "monitor"
    /\ \E reply \in MonitorReplies :
          /\ llm' = [llm EXCEPT !.monitor = reply.kind]
          /\ state' = Merge(state, monitor_node(state, reply))
    /\ pc' = MonitorEdge
    /\ history' = Append(history, "monitor")
    /\ UNCHANGED notRunVars

JudgeNode ==
    /\ pc = "judge"
    /\ \E reply \in JudgeReplies :
          /\ llm' = [llm EXCEPT !.judge = reply.kind]
          /\ state' = Merge(state, judge_node(state, reply))
    /\ pc' = JudgeEdges[route_after_judge(state')]
    /\ history' = Append(history, "judge")
    /\ UNCHANGED notRunVars

MitigatorNode ==
    /\ pc = "mitigator"
    /\ \E reply \in MitigatorReplies :
          /\ llm' = [llm EXCEPT !.mitigator = reply.kind]
          /\ state' = Merge(state, mitigator_node(state, reply))
    /\ pc' = MitigatorEdge
    /\ history' = Append(history, "mitigator")
    /\ UNCHANGED notRunVars

Next ==
    \/ Run
    \/ OrchestratorNode
    \/ DetectorNode
    \/ InvestigatorNode
    \/ MonitorNode
    \/ JudgeNode
    \/ MitigatorNode

Spec == Init /\ [][Next]_vars

-----------------------------------------------------------------------------
(* The routing functions on their own: a stage has returned a Decision     *)
(* with any metadata, and its conditional edge is evaluated                *)

ThreatLevels == {"NONE", "LOW", "MEDIUM", "HIGH", "CRITICAL"}

WorkflowModes == {"monitoring_only", "full_analysis"}

CoordinatorMetadata ==
    {a @@ b : a \in OptionalKey("threat_level", ThreatLevels),
              b \in OptionalKey("workflow_mode", WorkflowModes)}

DetectorMetadata ==
    {a @@ b : a \in OptionalKey("threats_detected", {<<>>, <<Threat(90)>>}),
              b \in OptionalKey("overall_assessment",
                                OptionalKey("recommended_action", RecommendedActions))}

JudgeMetadata == OptionalKey("final_assessment", Dicts(JudgeFlags, BOOLEAN))

RoutedStages == {"orchestrator", "detector", "judge"}

MetadataOf(stage) ==
    IF stage = "orchestrator" THEN CoordinatorMetadata
    ELSE IF stage = "detector" THEN DetectorMetadata
    ELSE JudgeMetadata

\* the run state in which only `stage` has a Decision (None when d is None)
StateWith(stage, d) ==
    LET s == initial_state(NoBatch, EmptyDict)
    IN  IF stage = "orchestrator" THEN [s EXCEPT !.orchestrator_decision = d]
        ELSE IF stage = "detector" THEN [s EXCEPT !.detector_decision = d]
        ELSE [s EXCEPT !.judge_decision = d]

Pending(stage) ==
    IF stage = "orchestrator" THEN "route_after_orchestrator"
    ELSE IF stage = "detector" THEN "route_after_detector"
    ELSE "route_after_judge"

PendingRoutes == {Pending(stage) : stage \in RoutedStages}

InitRoute ==
    \E stage \in RoutedStages :
        /\ \/ state = StateWith(stage, None)
           \/ \E m \in MetadataOf(stage) :
                 state = StateWith(stage, AgentDecision(stage, Label("made", "up"), 90, m))
        /\ pc = Pending(stage)
        /\ history = <<stage>>
        /\ llm = NoRunYet
        /\ events = <<>>
        /\ sessions = [r \in RunIds |-> NotStarted]
        /\ memory = NoCheckpoint
        /\ enhanced = NotCalled

RouteAfterOrchestrator ==
    /\ pc = Pending("orchestrator")
    /\ pc' = OrchestratorEdges[route_after_orchestrator(state)]
    /\ UNCHANGED <<state, history, llm>>
    /\ UNCHANGED notRunVars

RouteAfterDetector ==
    /\ pc = Pending("detector")
    /\ pc' = DetectorEdges[route_after_detector(state)]
    /\ UNCHANGED <<state, history, llm>>
    /\ UNCHANGED notRunVars

RouteAfterJudge ==
    /\ pc = Pending("judge")
    /\ pc' = JudgeEdges[route_after_judge(state)]
    /\ UNCHANGED <<state, history, llm>>
    /\ UNCHANGED notRunVars

NextRoute ==
    \/ RouteAfterOrchestrator
    \/ RouteAfterDetector
    \/ RouteAfterJudge

RouteSpec == InitRoute /\ [][NextRoute]_vars

-----------------------------------------------------------------------------
(* Properties *)

Range(seq) == {seq[i] : i \in 1..Len(seq)}

Last(seq) == seq[Len(seq)]

NoDuplicates(seq) == \A i, j \in 1..Len(seq) : seq[i] = seq[j] => i = j

Returned(stage) == stage \in Range(history)

JustReturned(stage) == Len(history) > 0 /\ Last(history) = stage /\ pc \notin PendingRoutes

Stopped == pc \in {"END", "raised"}

DecisionOf(stage) ==
    IF stage = "orchestrator" THEN state.orchestrator_decision
    ELSE IF stage = "detector" THEN state.detector_decision
    ELSE IF stage = "investigator" THEN state.investigator_decision
    ELSE IF stage = "monitor" THEN state.monitor_decision
    ELSE IF stage = "judge" THEN state.judge_decision
    ELSE state.mitigator_decision

ExecutorFailed(stage) == llm[stage] \in {"raise", "unparsable"}

EndsInError(label) == Last(label) = "error"

\* C1: when a run has reached END, final_decision is set and is the Decision
\* the judge produced; once set, final_decision never changes again, so no
\* later stage (the mitigator in particular) overwrites it.
C1_FinalDecisionIsTheJudges ==
    /\ [](pc = "END" =>
            /\ state.final_decision /= None
            /\ state.final_decision = state.judge_decision
            /\ state.final_decision.agent_id = "judge")
    /\ [][state.final_decision /= None => state'.final_decision = state.final_decision]_vars

\* a run that ended after the mitigator, with the judge's Decision still final
C1_Witness ==
    /\ pc = "END"
    /\ Returned("mitigator")
    /\ state.mitigator_decision /= None
    /\ state.final_decision = state.judge_decision
    /\ state.final_decision.agent_id = "judge"

\* C2: a run starts at the orchestrator, no stage returns twice, at most five
\* stages run, and a run that has stopped has executed the judge and stopped
\* directly after the judge or after the mitigator.
C2_RunShape ==
    /\ Len(history) > 0 => history[1] = "orchestrator"
    /\ NoDuplicates(history)
    /\ Len(history) <= 5
    /\ Stopped => /\ Returned("judge")
                  /\ Last(history) \in {"judge", "mitigator"}

\* C3: when the orchestrator's Decision has threat_level NONE, none of
\* detector, investigator and monitor is executed: the next stage is the judge.
C3_NoneSkipsToJudge ==
    (Returned("orchestrator") /\ state.orchestrator_decision.metadata.threat_level = "NONE")
        => /\ pc \notin {"detector", "investigator", "monitor"}
           /\ ~Returned("detector") /\ ~Returned("investigator") /\ ~Returned("monitor")

\* C4: with threat_level and workflow_mode in the orchestrator's metadata, the
\* stage after the orchestrator is the monitor when workflow_mode is
\* monitoring_only, else the judge when threat_level is NONE, else the detector.
C4_RouteAfterCoordinator ==
    (JustReturned("orchestrator") /\ state.orchestrator_decision /= None
     /\ {"threat_level", "workflow_mode"} \subseteq DOMAIN state.orchestrator_decision.metadata)
        => LET metadata == state.orchestrator_decision.metadata
           IN  pc = IF metadata.workflow_mode = "monitoring_only" THEN "monitor"
                    ELSE IF metadata.threat_level = "NONE" THEN "judge"
                    ELSE "detector"

\* the second row of the table was taken: NONE without monitoring_only
C4_Witness ==
    /\ JustReturned("orchestrator")
    /\ state.orchestrator_decision /= None
    /\ {"threat_level", "workflow_mode"} \subseteq DOMAIN state.orchestrator_decision.metadata
    /\ state.orchestrator_decision.metadata.threat_level = "NONE"
    /\ state.orchestrator_decision.metadata.workflow_mode = "full_analysis"
    /\ pc = "judge"

\* threats_detected is non-empty and recommended_action asks for investigation
NeedsInvestigation(metadata) ==
    /\ Len(Get(metadata, "threats_detected", <<>>)) > 0
    /\ "overall_assessment" \in DOMAIN metadata
    /\ "recommended_action" \in DOMAIN metadata.overall_assessment
    /\ metadata.overall_assessment.recommended_action \in {"investigate", "immediate_response"}

\* C5: the stage after the detector is the investigator exactly when
\* threats_detected is non-empty and recommended_action is investigate or
\* immediate_response, and the monitor in every other case.
C5_RouteAfterDetector ==
    JustReturned("detector")
        => pc = IF NeedsInvestigation(state.detector_decision.metadata)
                THEN "investigator" ELSE "monitor"

\* threats were reported with recommended_action monitor: the monitor is next
C5_Witness ==
    /\ JustReturned("detector")
    /\ Len(state.detector_decision.metadata.threats_detected) > 0
    /\ Get(state.detector_decision.metadata.overall_assessment, "recommended_action", Missing)
          = "monitor"
    /\ pc = "monitor"

\* the judge's flags allow the automated response (a missing flag is false)
MitigationApproved(decision) ==
    LET final_assessment == Get(decision.metadata, "final_assessment", EmptyDict)
        IsTrue(flag) == flag \in DOMAIN final_assessment /\ final_assessment[flag]
    IN  /\ ~IsTrue("human_intervention_required")
        /\ IsTrue("requires_immediate_action")
        /\ IsTrue("automated_response_approved")

\* C6: the mitigator is executed exactly in the runs whose judge Decision has
\* human_intervention_required false and both requires_immediate_action and
\* automated_response_approved true; it is never executed before the judge.
C6_MitigatorIffApproved ==
    LET mitigates == pc = "mitigator" \/ Returned("mitigator")
    IN  IF Returned("judge")
        THEN mitigates <=> MitigationApproved(state.judge_decision)
        ELSE ~mitigates

\* all three flags are true and the run ended without the mitigator
C6_Witness ==
    /\ pc = "END"
    /\ Returned("judge")
    /\ ~Returned("mitigator")
    /\ LET final_assessment == state.judge_decision.metadata.final_assessment
       IN  /\ JudgeFlags \subseteq DOMAIN final_assessment
           /\ \A flag \in JudgeFlags : final_assessment[flag]

\* C7: when the executor of a stage has failed, the run has not been aborted
\* and a Decision is stored for that stage; a run that has stopped has a
\* final_decision.
C7_FailureIsRecovered ==
    /\ \A stage \in LLMStages :
          ExecutorFailed(stage) => pc /= "raised" /\ DecisionOf(stage) /= None
    /\ Stopped => state.final_decision /= None

\* C8: the Decision stored for a stage whose executor failed has confidence
\* 0.3 and a label ending in _error.
C8_DegradedDecision ==
    \A stage \in LLMStages :
        (ExecutorFailed(stage) /\ DecisionOf(stage) /= None)
            => /\ DecisionOf(stage).confidence = 30
               /\ EndsInError(DecisionOf(stage).decision)

\* the row of the routing table selected when a condition whose key is
\* missing counts as false
TableRoute(stage, metadata) ==
    LET Has(dict, key) == key \in DOMAIN dict
        final_assessment == Get(metadata, "final_assessment", EmptyDict)
        IsTrue(flag) == Has(final_assessment, flag) /\ final_assessment[flag]
    IN  IF stage = "orchestrator"
        THEN IF Has(metadata, "workflow_mode") /\ metadata.workflow_mode = "monitoring_only"
             THEN "monitor"
             ELSE IF Has(metadata, "threat_level") /\ metadata.threat_level = "NONE"
             THEN "judge"
             ELSE "detector"
        ELSE IF stage = "detector"
        THEN IF NeedsInvestigation(metadata) THEN "investigator" ELSE "monitor"
        ELSE IF IsTrue("human_intervention_required") THEN "END"
             ELSE IF IsTrue("requires_immediate_action") /\ IsTrue("automated_response_approved")
             THEN "mitigator"
             ELSE "END"

\* C9: routing on a Decision whose metadata lacks a key the routing function
\* reads selects the row of the table that the remaining keys select, the
\* "otherwise" row when none does: orchestrator -> detector, detector ->
\* monitor, judge -> END.
C9_MissingKeyIsOtherwise ==
    \A stage \in RoutedStages :
        (JustReturned(stage) /\ DecisionOf(stage) /= None)
            => pc = TableRoute(stage, DecisionOf(stage).metadata)

\* C10: completed_agents lists the stages that have returned, in the order
\* they returned, each once; when the run has ended its last element is the
\* stage that routed to END.
C10_CompletedAgents ==
    pc \notin {"idle"} \cup PendingRoutes
        => /\ state.completed_agents = history
           /\ NoDuplicates(state.completed_agents)
           /\ pc = "END" => Last(state.completed_agents) \in {"judge", "mitigator"}

-----------------------------------------------------------------------------
(* The compiled graph as astream and the checkpointer drive it: the node   *)
(* bound to a name by add_node, and the node its edges select next         *)

NoReply == [kind |-> "none"]

\* what the external reasoning call of a node can do; the orchestrator
\* makes no call
NodeReplies(node) ==
    IF node = "orchestrator" THEN {NoReply}
    ELSE IF node = "detector" THEN DetectorReplies
    ELSE IF node = "investigator" THEN InvestigatorReplies
    ELSE IF node = "monitor" THEN MonitorReplies
    ELSE IF node = "judge" THEN JudgeReplies
    ELSE MitigatorReplies

\* the dict the node returns when called with the state s
invoke_node(node, s, reply) ==
    IF node = "orchestrator" THEN orchestrator_node(s)
    ELSE IF node = "detector" THEN detector_node(s, reply)
    ELSE IF node = "investigator" THEN investigator_node(s, reply)
    ELSE IF node = "monitor" THEN monitor_node(s, reply)
    ELSE IF node = "judge" THEN judge_node(s, reply)
    ELSE mitigator_node(s, reply)

\* the node (or END) that follows `node` once its update is merged into s
next_node(node, s) ==
    IF node = "orchestrator" THEN OrchestratorEdges[route_after_orchestrator(s)]
    ELSE IF node = "detector" THEN DetectorEdges[route_after_detector(s)]
    ELSE IF node = "investigator" THEN InvestigatorEdge
    ELSE IF node = "monitor" THEN MonitorEdge
    ELSE IF node = "judge" THEN JudgeEdges[route_after_judge(s)]
    ELSE MitigatorEdge

\* s.get(f"{node_name}_decision")
StageDecision(s, node_name) ==
    IF node_name = "orchestrator" THEN s.orchestrator_decision
    ELSE IF node_name = "detector" THEN s.detector_decision
    ELSE IF node_name = "investigator" THEN s.investigator_decision
    ELSE IF node_name = "monitor" THEN s.monitor_decision
    ELSE IF node_name = "judge" THEN s.judge_decision
    ELSE s.mitigator_decision

-----------------------------------------------------------------------------
(* Streaming (workflow.py, AgentWorkflow.run_streaming)                     *)
(* astream yields one chunk {node_name: update} per executed node, the      *)
(* update being the dict the node returned; the exception of a node        *)
(* propagates out of the generator.  The thread of the checkpointer is     *)
(* named after id(initial_state), a thread no earlier run has written.     *)

\* of the interaction dict only the fields that are not display text
create_agent_interaction(agent_name, decision) ==
    [confidence |-> decision.confidence,
     status     |-> "completed",
     details    |-> IF agent_name = "orchestrator"
                    THEN [threat_level  |-> Get(decision.metadata, "threat_level", "UNKNOWN"),
                          workflow_mode |-> Get(decision.metadata, "workflow_mode", "unknown")]
                    ELSE EmptyDict]

\* the events the body of the loop yields for one item of a chunk
yielded(node_name, update) ==
    LET decision == StageDecision(update, node_name)
    IN  IF decision /= None
        THEN << [type             |-> "agent_update",
                 agent            |-> node_name,
                 interaction      |-> create_agent_interaction(node_name, decision),
                 completed_agents |-> update.completed_agents,
                 current_step     |-> update.current_step] >>
        ELSE << >>

InitStream == Init

RunStreaming ==
    /\ pc = "idle"
    /\ \E input_data \in Batches, context \in Contexts :
          state' = initial_state(input_data, context)
    /\ pc' = EntryPoint
    /\ UNCHANGED <<history, llm, events, sessions, memory, enhanced>>

\* one iteration of `async for chunk in self.graph.astream(...)`
StreamChunk ==
    /\ pc \in Stages
    /\ \E reply \in NodeReplies(pc) :
          /\ llm' = IF pc \in LLMStages THEN [llm EXCEPT ![pc] = reply.kind] ELSE llm
          /\ IF pc = "detector" /\ detector_raises(reply)
             THEN /\ pc' = "raised"
                  /\ UNCHANGED <<state, history, events>>
             ELSE LET update == invoke_node(pc, state, reply)
                  IN  /\ state' = Merge(state, update)
                      /\ pc' = next_node(pc, state')
                      /\ history' = Append(history, pc)
                      /\ events' = events \o yielded(pc, update)
    /\ UNCHANGED <<sessions, memory, enhanced>>

\* astream is exhausted: the statements after the loop (comments only)
StreamReturn ==
    /\ pc = "END"
    /\ pc' = "closed"
    /\ UNCHANGED <<state, history, llm, events, sessions, memory, enhanced>>

NextStream ==
    \/ RunStreaming
    \/ StreamChunk
    \/ StreamReturn

StreamSpec == InitStream /\ [][NextStream]_vars

-----------------------------------------------------------------------------
(* Runs that share an instance (workflow.py, AgentWorkflow.run; api.py,    *)
(* the module-level `workflow`).  The graph is compiled with the           *)
(* MemorySaver of the instance and every call of run names the thread      *)
(* "agent_session_1": ainvoke restores the channels from the latest        *)
(* checkpoint of the thread, writes the input into them through their      *)
(* reducers, and saves a checkpoint after the input and after every node.  *)
(* A run keeps its own channel values while it executes; calls awaiting    *)
(* their nodes interleave at node boundaries.                              *)

\* the channels a call of ainvoke starts from
apply_input(checkpoint, input) ==
    IF checkpoint = NoCheckpoint THEN input ELSE Merge(checkpoint, input)

\* batches without normal or suspicious edges and without nodes
SessionBatches ==
    {b \in Batches : b.nodes = 0 /\ \A k \in DOMAIN b.edges : ~IsAttack(k) => b.edges[k] = 0}

\* replies that take a run along every edge of the graph
SessionReplies(node) ==
    IF node = "orchestrator" THEN {NoReply}
    ELSE IF node = "detector"
    THEN {Raise, Unparsable,
          Ok([threats_detected   |-> <<Threat(60), Threat(90)>>,
              overall_assessment |-> [recommended_action |-> "investigate",
                                      total_threats |-> 2]])}
    ELSE IF node = "judge"
    THEN {Unparsable,
          Ok([final_assessment |->
                [requires_immediate_action    |-> TRUE,
                 automated_response_approved  |-> TRUE,
                 human_intervention_required  |-> FALSE,
                 threat_level |-> "HIGH", confidence |-> 95]])}
    ELSE {Unparsable}

InitSession == Init

\* the r-th call of run on the instance
SessionRun(r) ==
    /\ sessions[r].pc = "idle"
    /\ r > 1 => sessions[r - 1].pc /= "idle"
    /\ \E input_data \in SessionBatches :
          LET started == apply_input(memory, initial_state(input_data, EmptyDict))
          IN  /\ sessions' = [sessions EXCEPT ![r] = [state |-> started, pc |-> EntryPoint]]
              /\ memory' = started
    /\ UNCHANGED <<state, pc, history, llm, events, enhanced>>

\* the r-th call executes its next node
SessionStep(r) ==
    /\ sessions[r].pc \in Stages
    /\ \E reply \in SessionReplies(sessions[r].pc) :
          LET node == sessions[r].pc
              s    == sessions[r].state
          IN  IF node = "detector" /\ detector_raises(reply)
              THEN /\ sessions' = [sessions EXCEPT ![r].pc = "raised"]
                   /\ UNCHANGED memory
              ELSE LET merged == Merge(s, invoke_node(node, s, reply))
                   IN  /\ sessions' = [sessions EXCEPT
                                          ![r] = [state |-> merged,
                                                  pc    |-> next_node(node, merged)]]
                       /\ memory' = merged
    /\ UNCHANGED <<state, pc, history, llm, events, enhanced>>

NextSession ==
    \/ \E r \in RunIds : SessionRun(r)
    \/ \E r \in RunIds : SessionStep(r)

SessionSpec == InitSession /\ [][NextSession]_vars

\* C12: a call of run that has been started and has not executed a node yet
\* holds the state built from its own input_data and context: no stage has a
\* Decision, completed_agents is empty and final_decision is unset, whatever
\* the other calls on the instance have done.
C12_RunsAreIndependent ==
    \A r \in RunIds :
        sessions[r].pc = EntryPoint
            => sessions[r].state
                 = initial_state(sessions[r].state.input_data, sessions[r].state.context)

-----------------------------------------------------------------------------
(* The orchestrator node on its own: batches that reach every rule and     *)
(* both special cases, given to the node in a state that a first call or   *)
(* a later call on the same thread starts from                             *)

Normal == [connection_type |-> "normal", attack_type |-> Missing]

Suspicious == [connection_type |-> "suspicious", attack_type |-> Missing]

Attack(attack_type) == [connection_type |-> "attack", attack_type |-> attack_type]

\* an edge without connection_type
Unlabelled == [connection_type |-> Missing, attack_type |-> Missing]

ScoreEdgeKinds ==
    {Normal, Suspicious, Attack("Ransomware"), Attack("Zero-Day Exploit"),
     Attack("DDoS Volumetric"), Attack(Missing), Unlabelled}

\* the numbers of edges of a kind in a batch
ScoreCounts(k) ==
    IF k = Normal THEN {0, 3, 6, 9, 80}
    ELSE IF k = Suspicious THEN {0, 5, 6, 15, 16}
    ELSE IF k = Attack("Ransomware") THEN {0, 1, 4, 11, 21}
    ELSE IF k = Attack("Zero-Day Exploit") THEN {0, 1}
    ELSE IF k = Attack("DDoS Volumetric") THEN {0, 5, 6}
    ELSE IF k = Unlabelled THEN {0, 2}
    ELSE {0, 1, 3, 4, 10, 11, 20, 21}

ScoreNodeCounts == {4, 5}

ScoreBatches ==
    { [nodes |-> n,
       edges |-> (Normal :> a) @@ (Suspicious :> b) @@ (Attack("Ransomware") :> c)
                 @@ (Attack("Zero-Day Exploit") :> d) @@ (Attack("DDoS Volumetric") :> e)
                 @@ (Attack(Missing) :> f) @@ (Unlabelled :> g)] :
        n \in ScoreNodeCounts,
        a \in ScoreCounts(Normal), b \in ScoreCounts(Suspicious),
        c \in ScoreCounts(Attack("Ransomware")), d \in ScoreCounts(Attack("Zero-Day Exploit")),
        e \in ScoreCounts(Attack("DDoS Volumetric")), f \in ScoreCounts(Attack(Missing)),
        g \in ScoreCounts(Unlabelled) }

\* the checkpoint an earlier call of run has left after its orchestrator node
AfterOrchestrator ==
    LET s == initial_state(NoBatch, EmptyDict) IN Merge(s, orchestrator_node(s))

PriorCheckpoints == {NoCheckpoint, AfterOrchestrator}

InitScore ==
    /\ \E input_data \in ScoreBatches, context \in Contexts, checkpoint \in PriorCheckpoints :
          state = apply_input(checkpoint, initial_state(input_data, context))
    /\ pc = EntryPoint
    /\ history = <<>>
    /\ llm = NoRunYet
    /\ events = <<>>
    /\ sessions = [r \in RunIds |-> NotStarted]
    /\ memory = NoCheckpoint
    /\ enhanced = NotCalled

NextScore == OrchestratorNode

ScoreSpec == InitScore /\ [][NextScore]_vars

\* the metadata of the Coordinator's Decision and the counts it reports
Coordinator == state.orchestrator_decision.metadata

Frequency(attack_type) == Get(Coordinator.statistics.attack_types, attack_type, 0)

\* the level and priority of the rule table, first match wins, a ratio
\* x / total_edges > p being x > p * total_edges, false when total_edges = 0
TableRule(attackCount, suspiciousCount, totalEdges) ==
    LET RatioAbove(twice, pct) == totalEdges > 0 /\ 100 * twice > pct * 2 * totalEdges
        attackRatioAbove(pct) == RatioAbove(2 * attackCount, pct)
        threatRatioAbove(pct) == RatioAbove(2 * attackCount + suspiciousCount, pct)
    IN  IF attackCount > 20 \/ attackRatioAbove(25)
        THEN [threat_level |-> "CRITICAL", priority |-> "immediate"]
        ELSE IF attackCount > 10 \/ attackRatioAbove(15)
        THEN [threat_level |-> "HIGH", priority |-> "high"]
        ELSE IF attackCount > 3 \/ suspiciousCount > 15 \/ threatRatioAbove(10)
        THEN [threat_level |-> "MEDIUM", priority |-> "elevated"]
        ELSE IF suspiciousCount > 5 \/ attackCount > 0
        THEN [threat_level |-> "LOW", priority |-> "standard"]
        ELSE [threat_level |-> "NONE", priority |-> "monitoring_only"]

\* the row of the table for the counts the Decision reports
TableRow ==
    TableRule(Coordinator.statistics.attack_count,
              Coordinator.statistics.suspicious_count,
              Coordinator.statistics.total_edges)

\* C13: a Decision whose frequency table counts more than 5 "DDoS
\* Volumetric" edges has threat_level CRITICAL, priority immediate and
\* ddos_detected true, whatever else the batch holds.
C13_DdosOverride ==
    (Returned("orchestrator") /\ Frequency("DDoS Volumetric") > 5)
        => /\ Coordinator.threat_level = "CRITICAL"
           /\ Coordinator.priority = "immediate"
           /\ Coordinator.ddos_detected

\* the level before the second special case: the row of the table, or
\* CRITICAL when the first special case applies
LevelBeforeApt ==
    IF Frequency("DDoS Volumetric") > 5 THEN "CRITICAL" ELSE TableRow.threat_level

SophisticatedOccurs ==
    \E t \in {"APT Exfiltration", "Zero-Day Exploit", "Ransomware"} :
        t \in DOMAIN Coordinator.statistics.attack_types

\* C14: when "APT Exfiltration", "Zero-Day Exploit" or "Ransomware" occurs
\* in the frequency table, apt_detected is true and the level is HIGH if the
\* level before the override is LOW, and is the level before the override
\* if that is MEDIUM, HIGH or CRITICAL.
C14_AptOverride ==
    (Returned("orchestrator") /\ SophisticatedOccurs)
        => /\ Coordinator.apt_detected
           /\ LevelBeforeApt /= "NONE"
           /\ Coordinator.threat_level
                 = IF LevelBeforeApt = "LOW" THEN "HIGH" ELSE LevelBeforeApt

\* a batch whose only attack edge is one Ransomware edge among 80 normal
\* edges: LOW by the table, HIGH after the override
C14_Witness ==
    /\ Returned("orchestrator")
    /\ SophisticatedOccurs
    /\ LevelBeforeApt = "LOW"
    /\ Coordinator.threat_level = "HIGH"
    /\ Coordinator.apt_detected

\* C15 as stated: a Decision with apt_detected true has threat_level HIGH or
\* CRITICAL.
C15_AptIsHighOrCritical ==
    (Returned("orchestrator") /\ Coordinator.apt_detected)
        => Coordinator.threat_level \in {"HIGH", "CRITICAL"}

\* C15, amended: a Decision with apt_detected true has threat_level MEDIUM,
\* HIGH or CRITICAL, never NONE or LOW, and it is MEDIUM only when the level
\* before the override is MEDIUM.
C15_AptIsAtLeastMedium ==
    (Returned("orchestrator") /\ Coordinator.apt_detected)
        => /\ Coordinator.threat_level \in {"MEDIUM", "HIGH", "CRITICAL"}
           /\ Coordinator.threat_level = "MEDIUM" => LevelBeforeApt = "MEDIUM"

\* 4 Ransomware edges among 80 normal edges: MEDIUM by the table, and MEDIUM
\* with apt_detected after the override
C15_Witness ==
    /\ Returned("orchestrator")
    /\ Coordinator.apt_detected
    /\ Coordinator.threat_level = "MEDIUM"

\* neither special case applies to the batch of the Decision
NoOverride == Frequency("DDoS Volumetric") <= 5 /\ ~SophisticatedOccurs

\* C16: when neither special case applies, the level and the priority of
\* the Decision are those of the first matching row of the rule table, the
\* comparisons being strict and the ratios 0 when there is no edge; a batch
\* without attack and suspicious edges is NONE with ddos_detected false.
C16_BaseRule ==
    Returned("orchestrator") =>
        /\ NoOverride =>
              /\ Coordinator.threat_level = TableRow.threat_level
              /\ Coordinator.priority = TableRow.priority
        /\ (Coordinator.statistics.attack_count = 0
            /\ Coordinator.statistics.suspicious_count = 0)
              => /\ Coordinator.threat_level = "NONE"
                 /\ Coordinator.priority = "monitoring_only"
                 /\ ~Coordinator.ddos_detected

\* an attack ratio of exactly 0.25 with at most 20 attack edges: rule 1 does
\* not match, rule 2 does
C16_Witness ==
    /\ Returned("orchestrator")
    /\ NoOverride
    /\ Coordinator.statistics.attack_count <= 20
    /\ 4 * Coordinator.statistics.attack_count = Coordinator.statistics.total_edges
    /\ Coordinator.statistics.total_edges > 0
    /\ Coordinator.threat_level = "HIGH"
    /\ Coordinator.priority = "high"

\* C17: the confidence of the Decision is that of the first matching case:
\* no edge -> 0.3; fewer than 10 edges -> 0.7; fewer than 5 nodes -> 0.8;
\* else 1.0.  Without edges it is 0.3 whatever the nodes and the state the
\* node was given.
C17_Confidence ==
    Returned("orchestrator") =>
        LET totalEdges == Coordinator.statistics.total_edges
            totalNodes == Coordinator.statistics.total_nodes
        IN  /\ state.orchestrator_decision.confidence
                 = IF totalEdges = 0 THEN 30
                   ELSE IF totalEdges < 10 THEN 70
                   ELSE IF totalNodes < 5 THEN 80
                   ELSE 100
            /\ totalEdges = 0 => state.orchestrator_decision.confidence = 30

\* fewer than 10 edges and fewer than 5 nodes: the second case decides
C17_Witness ==
    /\ Returned("orchestrator")
    /\ Coordinator.statistics.total_edges \in 1..9
    /\ Coordinator.statistics.total_nodes < 5
    /\ state.orchestrator_decision.confidence = 70

\* C18: in the Decision the orchestrator stores, workflow_mode is
\* monitoring_only exactly when threat_level (after the special cases) is
\* NONE and full_analysis otherwise, and the label is route_workflow_
\* followed by the workflow_mode.
C18_WorkflowMode ==
    Returned("orchestrator") =>
        /\ Coordinator.workflow_mode
              = IF Coordinator.threat_level = "NONE" THEN "monitoring_only" ELSE "full_analysis"
        /\ state.orchestrator_decision.decision
              = <<"route_workflow", Coordinator.workflow_mode>>

\* a batch of normal edges only
C18_Witness ==
    /\ Returned("orchestrator")
    /\ Coordinator.statistics.total_edges > 0
    /\ Coordinator.threat_level = "NONE"
    /\ Coordinator.workflow_mode = "monitoring_only"
    /\ state.orchestrator_decision.decision = <<"route_workflow", "monitoring_only">>

\* the metadata the orchestrator node produces for a batch when it is
\* called on the state of a first run with an empty context
FreshMetadata(input_data) ==
    orchestrator_node(initial_state(input_data, EmptyDict)).orchestrator_decision.metadata

-----------------------------------------------------------------------------
(* Signature matching (detector_enhanced.py, EnhancedDetectorAgent)         *)
(* A signature is the dict of ATTACK_SIGNATURES without its description; a  *)
(* key whose value is None is left out, so signature.get(key) is None       *)
(* exactly when the key is outside DOMAIN.  A confidence is kept as the     *)
(* fraction num / den of hundredths (0.95 is 95 / 1).                       *)

ATTACK_SIGNATURES ==
    [x \in {"DDoS-DNS", "DDoS-NTP", "DDoS-LDAP", "DDoS-MSSQL", "DDoS-NetBIOS",
            "DDoS-SNMP", "DDoS-SSDP", "SYN-Flood", "UDP-Flood", "Port-Scan"} |->
        IF x = "DDoS-DNS"
        THEN [port |-> 53, protocol |-> "UDP",
              packet_rate_threshold |-> 10000, bandwidth_threshold |-> 1000]
        ELSE IF x = "DDoS-NTP"
        THEN [port |-> 123, protocol |-> "UDP",
              packet_rate_threshold |-> 8000, bandwidth_threshold |-> 800]
        ELSE IF x = "DDoS-LDAP"
        THEN [port |-> 389, protocol |-> "UDP",
              packet_rate_threshold |-> 12000, bandwidth_threshold |-> 1500]
        ELSE IF x = "DDoS-MSSQL"
        THEN [port |-> 1434, protocol |-> "UDP",
              packet_rate_threshold |-> 9000, bandwidth_threshold |-> 900]
        ELSE IF x = "DDoS-NetBIOS"
        THEN [port |-> 137, protocol |-> "UDP",
              packet_rate_threshold |-> 7000, bandwidth_threshold |-> 700]
        ELSE IF x = "DDoS-SNMP"
        THEN [port |-> 161, protocol |-> "UDP",
              packet_rate_threshold |-> 11000, bandwidth_threshold |-> 1100]
        ELSE IF x = "DDoS-SSDP"
        THEN [port |-> 1900, protocol |-> "UDP",
              packet_rate_threshold |-> 13000, bandwidth_threshold |-> 1300]
        ELSE IF x = "SYN-Flood"
        THEN [protocol |-> "TCP",
              packet_rate_threshold |-> 15000, bandwidth_threshold |-> 500]
        ELSE IF x = "UDP-Flood"
        THEN [protocol |-> "UDP",
              packet_rate_threshold |-> 20000, bandwidth_threshold |-> 2000]
        ELSE [unique_ports_threshold |-> 50, packet_rate_threshold |-> 1000]]

\* str.upper() on the protocol names of the model
Upper(protocol) ==
    IF protocol = "udp" THEN "UDP"
    ELSE IF protocol = "tcp" THEN "TCP"
    ELSE protocol

\* a target_id is the sequence of its parts between ":"; a numeric part is
\* kept as the number int() reads from it
HasPort(target_id) == Len(target_id) > 1

TargetPort(target_id) == target_id[Len(target_id)]

\* port_match and protocol_match
signature_applies(signature, protocol, target_id) ==
    /\ "port" \in DOMAIN signature
          => HasPort(target_id) /\ TargetPort(target_id) = signature.port
    /\ "protocol" \in DOMAIN signature => protocol = signature.protocol

\* variant: both thresholds have to be exceeded
over_threshold_both(signature, packet_count, bandwidth) ==
    /\ "packet_rate_threshold" \in DOMAIN signature
    /\ packet_count > signature.packet_rate_threshold
    /\ "bandwidth_threshold" \in DOMAIN signature
    /\ bandwidth > signature.bandwidth_threshold

\* packet_count > packet_threshold or bandwidth > bandwidth_threshold, a
\* threshold the signature lacks being float('inf')
over_threshold(signature, packet_count, bandwidth) ==
    \/ /\ "packet_rate_threshold" \in DOMAIN signature
       /\ packet_count > signature.packet_rate_threshold
    \/ /\ "bandwidth_threshold" \in DOMAIN signature
       /\ bandwidth > signature.bandwidth_threshold

\* min(0.99, 0.6 + (packet_count / packet_threshold) * 0.3)
signature_confidence(packet_count, packet_threshold) ==
    LET num == 60 * packet_threshold + 30 * packet_count
    IN  [num |-> IF 99 * packet_threshold < num THEN 99 * packet_threshold ELSE num,
         den |-> packet_threshold]

\* the names of the table in the order of the dict
SignatureNames ==
    <<"DDoS-DNS", "DDoS-NTP", "DDoS-LDAP", "DDoS-MSSQL", "DDoS-NetBIOS",
      "DDoS-SNMP", "DDoS-SSDP", "SYN-Flood", "UDP-Flood", "Port-Scan">>

RECURSIVE signature_matches(_, _)
\* the detections the loop over the table appends for one edge, for the
\* names of the sequence `names`
signature_matches(edge, names) ==
    IF names = <<>> THEN <<>>
    ELSE LET attack_name == Head(names)
             signature   == ATTACK_SIGNATURES[attack_name]
             protocol    == Upper(edge.protocol)
         IN  (IF /\ signature_applies(signature, protocol, edge.target_id)
                 /\ over_threshold(signature, edge.packet_count, edge.bandwidth)
              THEN << [type        |-> "signature_match",
                       attack_type |-> attack_name,
                       edge_id     |-> edge.id,
                       severity    |-> "high",
                       confidence  |-> signature_confidence(edge.packet_count,
                                           signature.packet_rate_threshold),
                       target      |-> edge.target_id] >>
              ELSE <<>>)
             \o signature_matches(edge, Tail(names))

\* the detection appended for an edge the dataset labels as an attack
labeled_attack(edge) ==
    IF edge.connection_type = "attack"
    THEN << [type        |-> "labeled_attack",
             attack_type |-> Get(edge, "attack_type", "Unknown"),
             edge_id     |-> edge.id,
             severity    |-> "high",
             confidence  |-> [num |-> 95, den |-> 1],
             target      |-> edge.target_id] >>
    ELSE <<>>

RECURSIVE analyze_edges(_)
analyze_edges(edges) ==
    IF edges = <<>> THEN <<>>
    ELSE labeled_attack(Head(edges)) \o signature_matches(Head(edges), SignatureNames)
         \o analyze_edges(Tail(edges))

\* the edges of the model: protocols in both cases, targets without a
\* port, to the ports of the table and to port 80, packet counts and
\* bandwidths on both sides of thresholds of the table
EdgeProtocols == {"UDP", "udp", "TCP", "ICMP"}

EdgeTargets ==
    {<<"10.0.0.9">>} \cup
    {<<"10.0.0.9", port>> : port \in {53, 123, 389, 1434, 137, 161, 1900, 80}}

PacketCounts == {0, 1000, 1001, 7000, 7001, 10000, 10001, 20000, 20001, 50000}

Bandwidths == {0, 500, 501, 700, 701, 1000, 1001, 2000, 2001}

SignatureEdges ==
    { [connection_type |-> "normal", protocol |-> p, target_id |-> t,
       packet_count |-> n, bandwidth |-> b] :
        p \in EdgeProtocols, t \in EdgeTargets, n \in PacketCounts, b \in Bandwidths }
    \cup
    { [connection_type |-> "attack", attack_type |-> "DDoS-DNS", protocol |-> p,
       target_id |-> t, packet_count |-> n, bandwidth |-> 0] :
        p \in EdgeProtocols, t \in EdgeTargets, n \in PacketCounts }

\* the edges that occur in lists of two edges
PairedEdges ==
    {e \in SignatureEdges :
        /\ e.connection_type = "normal"
        /\ e.protocol \in {"UDP", "TCP"}
        /\ e.target_id \in {<<"10.0.0.9">>, <<"10.0.0.9", 53>>}
        /\ e.packet_count \in {0, 50000}
        /\ e.bandwidth = 0}

WithId(edge, id) == edge @@ [id |-> id]

EdgeLists ==
    {<<>>} \cup {<<WithId(e, 1)>> : e \in SignatureEdges}
           \cup {<<WithId(e, 1), WithId(f, 2)>> : e, f \in PairedEdges}

InitSignature ==
    /\ \E edges \in EdgeLists :
          enhanced = [edges |-> edges, detections |-> <<>>, returned |-> FALSE]
    /\ state = initial_state(NoBatch, EmptyDict)
    /\ pc = "idle"
    /\ history = <<>>
    /\ llm = NoRunYet
    /\ events = <<>>
    /\ sessions = [r \in RunIds |-> NotStarted]
    /\ memory = NoCheckpoint

\* detections = self._analyze_edges(edges)
AnalyzeEdges ==
    /\ ~enhanced.returned
    /\ enhanced' = [enhanced EXCEPT !.detections = analyze_edges(enhanced.edges),
                                    !.returned = TRUE]
    /\ UNCHANGED <<state, pc, history, llm, events, sessions, memory>>

NextSignature == AnalyzeEdges

SignatureSpec == InitSignature /\ [][NextSignature]_vars

\* the positions in the returned list of the signature_match detections for
\* an edge and an entry of the table
Emitted(edge, attack_name) ==
    {j \in 1..Len(enhanced.detections) :
        /\ enhanced.detections[j].type = "signature_match"
        /\ enhanced.detections[j].attack_type = attack_name
        /\ enhanced.detections[j].edge_id = edge.id}

\* C20: for every edge and every entry of the table, one signature_match is
\* emitted when the entry's port (if it has one) is the target port, its
\* protocol (if it has one) is the protocol of the edge in upper case, and
\* the packet count or the bandwidth exceeds the entry's threshold, and none
\* is emitted otherwise; its confidence is min(0.99, 0.6 + (packetCount /
\* packetThreshold) * 0.3), between 0.6 and 0.99.  A UDP edge to port 53
\* with more than 10000 packets has a DDoS-DNS match.
C20_SignatureMatch ==
    enhanced.returned =>
        \A i \in 1..Len(enhanced.edges), attack_name \in DOMAIN ATTACK_SIGNATURES :
            LET edge        == enhanced.edges[i]
                signature   == ATTACK_SIGNATURES[attack_name]
                protocol    == Upper(edge.protocol)
                packetCount == edge.packet_count
                packetThreshold == signature.packet_rate_threshold
                portMatches ==
                    "port" \notin DOMAIN signature
                    \/ (HasPort(edge.target_id) /\ TargetPort(edge.target_id) = signature.port)
                protocolMatches ==
                    "protocol" \notin DOMAIN signature \/ protocol = signature.protocol
                exceeds ==
                    \/ packetCount > packetThreshold
                    \/ ("bandwidth_threshold" \in DOMAIN signature
                        /\ edge.bandwidth > signature.bandwidth_threshold)
                uncapped == 60 * packetThreshold + 30 * packetCount
            IN  /\ Cardinality(Emitted(edge, attack_name))
                      = IF portMatches /\ protocolMatches /\ exceeds THEN 1 ELSE 0
                /\ \A j \in Emitted(edge, attack_name) :
                      LET confidence == enhanced.detections[j].confidence
                      IN  /\ confidence.den = packetThreshold
                          /\ confidence.num
                                = IF uncapped > 99 * packetThreshold
                                  THEN 99 * packetThreshold ELSE uncapped
                          /\ 60 * confidence.den <= confidence.num
                          /\ confidence.num <= 99 * confidence.den
                /\ (attack_name = "DDoS-DNS" /\ protocol = "UDP" /\ packetCount > 10000
                    /\ HasPort(edge.target_id) /\ TargetPort(edge.target_id) = 53)
                      => Emitted(edge, attack_name) /= {}

\* a udp edge to port 53 with 10001 packets and no bandwidth: one DDoS-DNS
\* match, its confidence above 0.9 and below the cap
C20_Witness ==
    /\ enhanced.returned
    /\ \E i \in 1..Len(enhanced.edges) :
          /\ enhanced.edges[i].protocol = "udp"
          /\ enhanced.edges[i].target_id = <<"10.0.0.9", 53>>
          /\ enhanced.edges[i].packet_count = 10001
          /\ enhanced.edges[i].bandwidth = 0
          /\ \E j \in Emitted(enhanced.edges[i], "DDoS-DNS") :
                /\ enhanced.detections[j].confidence.num > 90 * enhanced.detections[j].confidence.den
                /\ enhanced.detections[j].confidence.num < 99 * enhanced.detections[j].confidence.den

\* ------------------------------------------------------------------------
\* EnhancedDetectorAgent._detect_coordinated_attacks
\* (backend/agents/detector_enhanced.py).  A confidence is a fraction of
\* hundredths, as in signature_confidence.

\* attack_edges = [e for e in edges if e.get("connection_type") == "attack"]
attack_edges(edges) ==
    LET is_attack(e) == e.connection_type = "attack"
    IN  SelectSeq(edges, is_attack)

\* the keys of the dict targets, in the order of their insertion
RECURSIVE targets_of(_)
targets_of(edges) ==
    IF edges = <<>> THEN <<>>
    ELSE LET target == Head(edges).target_id
             other(e) == e.target_id # target
         IN  <<target>> \o targets_of(SelectSeq(Tail(edges), other))

\* targets[target]
target_edges_of(edges, target) ==
    LET to_target(e) == e.target_id = target
    IN  SelectSeq(edges, to_target)

unique_sources_counts_flows(target_edges) ==
    Len(target_edges)

\* len(set(e.get("source_id") for e in target_edges))
unique_sources(target_edges) ==
    Cardinality({target_edges[i].source_id : i \in 1..Len(target_edges)})

\* min(0.95, 0.7 + (unique_sources / 20) * 0.25)
coordinated_confidence(sources) ==
    [num |-> IF 280 + 5 * sources < 380 THEN 280 + 5 * sources ELSE 380,
     den |-> 4]

\* the body of the loop over targets.items()
coordinated_ddos(target, target_edges) ==
    IF Len(target_edges) >= 5 /\ unique_sources(target_edges) >= 5
    THEN <<[type       |-> "coordinated_ddos",
            target     |-> target,
            severity   |-> IF unique_sources(target_edges) >= 10
                           THEN "critical" ELSE "high",
            confidence |-> coordinated_confidence(unique_sources(target_edges)),
            evidence   |-> [unique_sources |-> unique_sources(target_edges),
                            attack_flows   |-> Len(target_edges)]]>>
    ELSE <<>>

RECURSIVE coordinated_over(_, _)
coordinated_over(edges, targets) ==
    IF targets = <<>> THEN <<>>
    ELSE coordinated_ddos(Head(targets), target_edges_of(edges, Head(targets)))
            \o coordinated_over(edges, Tail(targets))

detect_coordinated_attacks(edges) ==
    IF Len(attack_edges(edges)) < 5 THEN <<>>
    ELSE coordinated_over(attack_edges(edges), targets_of(attack_edges(edges)))

\* Batches for the coordinated pass: to each of two targets, attack flows
\* from a number of distinct sources, further attack flows from the first
\* of them, and normal flows from other sources.
DistinctSources == {0, 1, 4, 5, 6, 9, 10, 11}
RepeatedFlows  == {0, 1, 4, 5}
NormalFlows    == {0, 5}
OtherSources   == {0, 1, 5}

Flow(connection_type, source_id, target_id) ==
    [connection_type |-> connection_type, source_id |-> source_id,
     target_id |-> target_id]

FlowsTo(target, sources, repeated, normal) ==
    [i \in 1..sources |-> Flow("attack", i, target)]
      \o [i \in 1..repeated |-> Flow("attack", 1, target)]
      \o [i \in 1..normal |-> Flow("normal", 20 + i, target)]

CoordinatedBatches ==
    {FlowsTo(<<"10.0.0.9">>, k, d, n) \o FlowsTo(<<"10.0.0.7">>, o, 0, 0) :
        k \in DistinctSources, d \in RepeatedFlows, n \in NormalFlows,
        o \in OtherSources}

InitCoordinated ==
    /\ \E edges \in CoordinatedBatches :
          enhanced = [edges |-> edges, detections |-> <<>>, returned |-> FALSE]
    /\ state = initial_state(NoBatch, EmptyDict)
    /\ pc = "idle"
    /\ history = <<>>
    /\ llm = NoRunYet
    /\ events = <<>>
    /\ sessions = [r \in RunIds |-> NotStarted]
    /\ memory = NoCheckpoint

\* detections.extend(self._detect_coordinated_attacks(edges, nodes))
DetectCoordinatedAttacks ==
    /\ ~enhanced.returned
    /\ enhanced' = [enhanced EXCEPT
                       !.detections = detect_coordinated_attacks(enhanced.edges),
                       !.returned = TRUE]
    /\ UNCHANGED <<state, pc, history, llm, events, sessions, memory>>

NextCoordinated == DetectCoordinatedAttacks

CoordinatedSpec == InitCoordinated /\ [][NextCoordinated]_vars

\* the positions of the attack flows of the batch to a target
AttackFlowsTo(target) ==
    {i \in 1..Len(enhanced.edges) :
        /\ enhanced.edges[i].connection_type = "attack"
        /\ enhanced.edges[i].target_id = target}

AttackSourcesOf(target) ==
    {enhanced.edges[i].source_id : i \in AttackFlowsTo(target)}

CoordinatedFor(target) ==
    {j \in 1..Len(enhanced.detections) :
        /\ enhanced.detections[j].type = "coordinated_ddos"
        /\ enhanced.detections[j].target = target}

\* C21: the coordinated pass emits a coordinated_ddos detection for a
\* target exactly when the target receives at least 5 attack flows from at
\* least 5 distinct sources; its severity is critical when the distinct
\* sources are at least 10 and high otherwise.
C21_CoordinatedDdos ==
    enhanced.returned =>
        \A i \in 1..Len(enhanced.edges) :
            LET target == enhanced.edges[i].target_id
                flows   == Cardinality(AttackFlowsTo(target))
                sources == Cardinality(AttackSourcesOf(target))
            IN  IF flows >= 5 /\ sources >= 5
                THEN /\ Cardinality(CoordinatedFor(target)) = 1
                     /\ \A j \in CoordinatedFor(target) :
                           enhanced.detections[j].severity =
                              IF sources >= 10 THEN "critical" ELSE "high"
                ELSE CoordinatedFor(target) = {}

\* a batch in which a target with 10 distinct sources has a critical
\* detection and a target with 5 a high one
C21_Witness ==
    /\ enhanced.returned
    /\ Cardinality(AttackSourcesOf(<<"10.0.0.9">>)) = 10
    /\ Cardinality(AttackSourcesOf(<<"10.0.0.7">>)) = 5
    /\ \E j \in CoordinatedFor(<<"10.0.0.9">>) : enhanced.detections[j].severity = "critical"
    /\ \E j \in CoordinatedFor(<<"10.0.0.7">>) : enhanced.detections[j].severity = "high"

\* ------------------------------------------------------------------------
\* EnhancedDetectorAgent._calculate_threat_level.  The arithmetic on
\* confidences is exact, on fractions of hundredths.

Hundredths(n) == [num |-> n, den |-> 1]

FracAdd(a, b) == [num |-> a.num * b.den + b.num * a.den, den |-> a.den * b.den]

FracLess(a, b) == a.num * b.den < b.num * a.den

FracMin_second(a, b) ==
    b

\* min(a, b)
FracMin(a, b) ==
    IF FracLess(b, a) THEN b ELSE a

Severities == {"critical", "high", "medium", "low"}

severity_counts_of_last(detections) ==
    [severity \in Severities |->
        IF detections # <<>> /\
           Get(detections[Len(detections)], "severity", "low") = severity
        THEN 1 ELSE 0]

\* severity_counts after the loop over the detections
severity_counts(detections) ==
    [severity \in Severities |->
        Cardinality({i \in 1..Len(detections) :
                        Get(detections[i], "severity", "low") = severity})]

RECURSIVE total_confidence(_)
total_confidence(detections) ==
    IF detections = <<>> THEN Hundredths(0)
    ELSE FracAdd(Get(Head(detections), "confidence", Hundredths(50)),
                 total_confidence(Tail(detections)))

\* total_confidence / len(detections)
avg_confidence(detections) ==
    [num |-> total_confidence(detections).num,
     den |-> total_confidence(detections).den * Len(detections)]

calculate_threat_level(detections) ==
    IF detections = <<>>
    THEN [threat_level |-> "low", confidence |-> Hundredths(50)]
    ELSE LET counts == severity_counts(detections)
             avg    == avg_confidence(detections)
         IN  IF counts["critical"] > 0
             THEN [threat_level |-> "critical", confidence |-> FracMin(Hundredths(95), avg)]
             ELSE IF counts["high"] >= 3
             THEN [threat_level |-> "high", confidence |-> FracMin(Hundredths(90), avg)]
             ELSE IF counts["high"] >= 1
             THEN [threat_level |-> "high", confidence |-> FracMin(Hundredths(85), avg)]
             ELSE IF counts["medium"] >= 5
             THEN [threat_level |-> "medium", confidence |-> FracMin(Hundredths(80), avg)]
             ELSE IF counts["medium"] >= 1
             THEN [threat_level |-> "medium", confidence |-> FracMin(Hundredths(75), avg)]
             ELSE [threat_level |-> "low", confidence |-> Hundredths(60)]

\* Lists of detections as the passes emit them: a severity of critical,
\* high or medium and a confidence between 0.6 and 0.99.
MaxDetections == 5

Detection(type, severity, confidence) ==
    [type |-> type, severity |-> severity, confidence |-> Hundredths(confidence)]

DetectionKinds ==
    {Detection("high_attack_ratio", "critical", 90),
     Detection("signature_match", "high", 99),
     Detection("signature_match", "high", 60),
     Detection("labeled_attack", "high", 95),
     Detection("node_status_anomaly", "medium", 85),
     Detection("elevated_suspicious_activity", "medium", 75)}

DetectionLists ==
    UNION {[1..n -> DetectionKinds] : n \in 0..MaxDetections}

InitThreatLevel ==
    /\ \E detections \in DetectionLists :
          enhanced = [detections |-> detections, threat_level |-> "None",
                      confidence |-> Hundredths(0), returned |-> FALSE]
    /\ state = initial_state(NoBatch, EmptyDict)
    /\ pc = "idle"
    /\ history = <<>>
    /\ llm = NoRunYet
    /\ events = <<>>
    /\ sessions = [r \in RunIds |-> NotStarted]
    /\ memory = NoCheckpoint

\* threat_level, confidence = self._calculate_threat_level(detections)
CalculateThreatLevel ==
    /\ ~enhanced.returned
    /\ enhanced' = [enhanced EXCEPT
                       !.threat_level = calculate_threat_level(enhanced.detections).threat_level,
                       !.confidence = calculate_threat_level(enhanced.detections).confidence,
                       !.returned = TRUE]
    /\ UNCHANGED <<state, pc, history, llm, events, sessions, memory>>

NextThreatLevel == CalculateThreatLevel

ThreatLevelSpec == InitThreatLevel /\ [][NextThreatLevel]_vars

\* the number of detections of a severity in the list given to the function
NumberOf(severity) ==
    Cardinality({i \in 1..Len(enhanced.detections) :
                    enhanced.detections[i].severity = severity})

\* the sum of the confidences of the list, in hundredths
SumOfConfidences ==
    SumOver([i \in 1..Len(enhanced.detections) |->
                enhanced.detections[i].confidence.num],
            1..Len(enhanced.detections))

\* the confidence returned is the mean of the confidences of the list
IsTheMean ==
    enhanced.confidence.num * Len(enhanced.detections) =
        SumOfConfidences * enhanced.confidence.den

\* the confidence returned is a number of hundredths
Is(hundredths) ==
    enhanced.confidence.num = hundredths * enhanced.confidence.den

\* the cap of the branch that decides the level
CapOfBranch ==
    IF NumberOf("critical") > 0 THEN 95
    ELSE IF NumberOf("high") >= 3 THEN 90
    ELSE IF NumberOf("high") >= 1 THEN 85
    ELSE IF NumberOf("medium") >= 5 THEN 80
    ELSE 75

\* C24 as stated: the overall confidence is the mean of the confidences of
\* all detections, and 0.6 when there are no detections.
C24_ConfidenceIsTheMean ==
    enhanced.returned =>
        IF enhanced.detections = <<>> THEN Is(60) ELSE IsTheMean

\* C24, amended: the overall confidence is 0.5 when there are no
\* detections; otherwise it is the mean of the confidences of all
\* detections, capped by 0.95 when a detection is critical, else by 0.9 with
\* three or more high detections, else by 0.85 with a high detection, else
\* by 0.8 with five or more medium detections, else by 0.75.
C24_ConfidenceIsTheCappedMean ==
    enhanced.returned =>
        IF enhanced.detections = <<>> THEN Is(50)
        ELSE IF SumOfConfidences > CapOfBranch * Len(enhanced.detections)
             THEN Is(CapOfBranch)
             ELSE IsTheMean

\* three high detections of mean 0.95 have the confidence 0.9
C24_Witness ==
    /\ enhanced.returned
    /\ Len(enhanced.detections) = 3
    /\ NumberOf("high") = 3
    /\ SumOfConfidences = 3 * 95
    /\ Is(90)
    /\ ~IsTheMean

\* C25: the overall threat level is critical if any detection is critical;
\* else high if at least one detection is high; else medium if at least one
\* detection is medium; else low, as for the empty list.
C25_ThreatLevel ==
    enhanced.returned =>
        enhanced.threat_level =
            IF NumberOf("critical") >= 1 THEN "critical"
            ELSE IF NumberOf("high") >= 1 THEN "high"
            ELSE IF NumberOf("medium") >= 1 THEN "medium"
            ELSE "low"

\* a critical detection after high and medium ones makes the level critical
C25_Witness ==
    /\ enhanced.returned
    /\ Len(enhanced.detections) = 3
    /\ enhanced.detections[1].severity = "medium"
    /\ enhanced.detections[2].severity = "high"
    /\ enhanced.detections[3].severity = "critical"
    /\ enhanced.threat_level = "critical"

\* ------------------------------------------------------------------------
\* EnhancedDetectorAgent._analyze_nodes.  Traffic volumes are counted in
\* megabytes (1,000,000 bytes), so the 100_000_000 bytes of line 255 are
\* 100.  The threshold is a fraction: five times the mean need not be whole.

\* 100_000_000, in megabytes
HEAVY_HITTER_FLOOR == 100

Whole(n) == [num |-> n, den |-> 1]

FracMax(a, b) == IF FracLess(a, b) THEN b ELSE a

FracTimes(a, n) == [num |-> a.num * n, den |-> a.den]

\* sum(traffic_volumes) / len(traffic_volumes)
avg_traffic(nodes) ==
    [num |-> SumOf(nodes, "traffic_volume", 0), den |-> Len(nodes)]

heavy_hitter_threshold_without_floor(nodes) ==
    FracTimes(avg_traffic(nodes), 5)

\* max(avg_traffic * 5, 100_000_000)
heavy_hitter_threshold(nodes) ==
    FracMax(FracTimes(avg_traffic(nodes), 5), Whole(HEAVY_HITTER_FLOOR))

\* min(0.95, 0.7 + (traffic_vol / (heavy_hitter_threshold * 2)) * 0.25)
heavy_hitter_confidence(traffic_vol, threshold) ==
    FracMin(Hundredths(95),
            [num |-> 140 * threshold.num + 25 * traffic_vol * threshold.den,
             den |-> 2 * threshold.num])

\* the detections appended for one node
node_detections(node, threshold) ==
    LET traffic_vol == Get(node, "traffic_volume", 0)
        status      == Get(node, "status", "normal")
    IN  (IF FracLess(threshold, Whole(traffic_vol))
         THEN <<[type       |-> "heavy_hitter",
                 node_id    |-> node.id,
                 severity   |-> IF FracLess(FracTimes(threshold, 2), Whole(traffic_vol))
                                THEN "critical" ELSE "high",
                 confidence |-> heavy_hitter_confidence(traffic_vol, threshold)]>>
         ELSE <<>>)
        \o
        (IF status \in {"attacked", "suspicious"}
         THEN <<[type       |-> "node_status_anomaly",
                 node_id    |-> node.id,
                 severity   |-> IF status = "attacked" THEN "high" ELSE "medium",
                 confidence |-> Hundredths(85)]>>
         ELSE <<>>)

RECURSIVE nodes_over(_, _)
nodes_over(nodes, threshold) ==
    IF nodes = <<>> THEN <<>>
    ELSE node_detections(Head(nodes), threshold) \o nodes_over(Tail(nodes), threshold)

analyze_nodes(nodes) ==
    IF nodes = <<>> THEN <<>>
    ELSE nodes_over(nodes, heavy_hitter_threshold(nodes))

\* Node lists: a number of nodes with one background volume, followed by a
\* node whose volume is on either side of the thresholds, or that has no
\* traffic_volume.
BackgroundNodes   == {0, 1, 5, 10}
BackgroundVolumes == {0, 5, 20}
ProbeVolumes      == {0, 100, 101, 125, 126, 200, 201, 500, 501, 600}
NodeStatuses      == {"normal", "attacked", "suspicious"}

Node(id, fields) == [id |-> id] @@ fields

NodeLists ==
    {<<>>} \cup
    {[i \in 1..k |-> Node(i, [traffic_volume |-> w, status |-> "normal"])]
        \o <<Node(k + 1, volume @@ [status |-> status])>> :
        k \in BackgroundNodes, w \in BackgroundVolumes,
        volume \in OptionalKey("traffic_volume", ProbeVolumes),
        status \in NodeStatuses}

InitNodes ==
    /\ \E nodes \in NodeLists :
          enhanced = [nodes |-> nodes, detections |-> <<>>, returned |-> FALSE]
    /\ state = initial_state(NoBatch, EmptyDict)
    /\ pc = "idle"
    /\ history = <<>>
    /\ llm = NoRunYet
    /\ events = <<>>
    /\ sessions = [r \in RunIds |-> NotStarted]
    /\ memory = NoCheckpoint

\* node_detections = self._analyze_nodes(nodes)
AnalyzeNodes ==
    /\ ~enhanced.returned
    /\ enhanced' = [enhanced EXCEPT !.detections = analyze_nodes(enhanced.nodes),
                                    !.returned = TRUE]
    /\ UNCHANGED <<state, pc, history, llm, events, sessions, memory>>

NextNodes == AnalyzeNodes

NodesSpec == InitNodes /\ [][NextNodes]_vars

\* the traffic volume of the i-th node of the list, 0 without the key
VolumeOf(i) ==
    IF "traffic_volume" \in DOMAIN enhanced.nodes[i]
    THEN enhanced.nodes[i].traffic_volume ELSE 0

TotalVolume ==
    SumOver([i \in 1..Len(enhanced.nodes) |-> VolumeOf(i)], 1..Len(enhanced.nodes))

\* the volume of the i-th node is strictly greater than `times` times
\* max(5 * mean, 100000000)
AboveThreshold(i, times) ==
    /\ VolumeOf(i) * Len(enhanced.nodes) > times * 5 * TotalVolume
    /\ VolumeOf(i) > times * HEAVY_HITTER_FLOOR

HeavyHitterFor(i) ==
    {j \in 1..Len(enhanced.detections) :
        /\ enhanced.detections[j].type = "heavy_hitter"
        /\ enhanced.detections[j].node_id = enhanced.nodes[i].id}

\* C27: the heavy-hitter threshold is max(5 * mean traffic volume,
\* 100000000); a node is flagged exactly when its traffic volume is
\* strictly greater than the threshold, critical when it is strictly
\* greater than twice the threshold and high otherwise; an empty node list
\* yields no detection.
C27_HeavyHitter ==
    enhanced.returned =>
        /\ enhanced.nodes = <<>> => enhanced.detections = <<>>
        /\ \A i \in 1..Len(enhanced.nodes) :
              IF AboveThreshold(i, 1)
              THEN /\ Cardinality(HeavyHitterFor(i)) = 1
                   /\ \A j \in HeavyHitterFor(i) :
                         enhanced.detections[j].severity =
                            IF AboveThreshold(i, 2) THEN "critical" ELSE "high"
              ELSE HeavyHitterFor(i) = {}

\* among eleven nodes, one whose volume is above five times the mean, which
\* is above the floor, and exactly twice the threshold, is flagged high
C27_Witness ==
    /\ enhanced.returned
    /\ Len(enhanced.nodes) = 11
    /\ 5 * TotalVolume > HEAVY_HITTER_FLOOR * 11
    /\ VolumeOf(11) * 11 = 10 * TotalVolume
    /\ \E j \in HeavyHitterFor(11) : enhanced.detections[j].severity = "high"

\* ------------------------------------------------------------------------
\* EnhancedDetectorAgent._analyze_statistics and EnhancedDetectorAgent.process

\* attack_ratio > 0.3 and suspicious_ratio > 0.2, on whole numbers
ratio_above(count, total_edges, tenths) == 10 * count > tenths * total_edges

analyze_statistics(stats, total_edges) ==
    LET attack_count     == Get(stats, "attack_count", 0)
        suspicious_count == Get(stats, "suspicious_count", 0)
    IN  IF total_edges = 0 THEN <<>>
        ELSE (IF ratio_above(attack_count, total_edges, 3)
              THEN <<[type       |-> "high_attack_ratio",
                      severity   |-> IF ratio_above(attack_count, total_edges, 5)
                                     THEN "critical" ELSE "high",
                      confidence |-> Hundredths(90)]>>
              ELSE <<>>)
             \o
             (IF ratio_above(suspicious_count, total_edges, 2)
              THEN <<[type       |-> "elevated_suspicious_activity",
                      severity   |-> "medium",
                      confidence |-> Hundredths(75)]>>
              ELSE <<>>)

\* len([d for d in detections if d["severity"] in severities])
detections_of(detections, severities) ==
    Cardinality({i \in 1..Len(detections) : detections[i].severity \in severities})

\* detection_types of _generate_decision_text: the number of detections of
\* each type
detection_types(detections) ==
    [type \in {detections[i].type : i \in 1..Len(detections)} |->
        Cardinality({i \in 1..Len(detections) : detections[i].type = type})]

\* the text of the decision, as the parts the f-string puts together
generate_decision_text(detections, threat_level) ==
    IF detections = <<>>
    THEN <<"No significant threats detected - traffic appears normal">>
    ELSE <<"THREAT LEVEL", threat_level, detection_types(detections)>>

\* the dict self.detection_stats itself, where a dict holds it as a value
DetectionStatsObject == [object |-> "self.detection_stats"]

\* process(input_data): the new value of self.detection_stats and the
\* AgentOutput returned.  metadata["stats"] is the object
\* self.detection_stats, not a copy of its value.
process(detection_stats, data) ==
    LET nodes == Get(data, "nodes", <<>>)
        edges == Get(data, "edges", <<>>)
        stats == Get(data, "statistics", EmptyDict)
        detections ==
            analyze_edges(edges) \o analyze_nodes(nodes)
               \o analyze_statistics(stats, Len(edges))
               \o detect_coordinated_attacks(edges)
        level == calculate_threat_level(detections)
    IN  [detection_stats |->
            [total_flows_analyzed |->
                detection_stats.total_flows_analyzed + Len(edges),
             attacks_detected |->
                detection_stats.attacks_detected
                   + detections_of(detections, {"high", "critical"}),
             suspicious_flagged |->
                detection_stats.suspicious_flagged
                   + detections_of(detections, {"medium"})],
         output |->
            [decision |->
                AgentDecision("detector-enhanced",
                    generate_decision_text(detections, level.threat_level),
                    level.confidence,
                    [detections     |-> detections,
                     threat_level   |-> level.threat_level,
                     stats          |-> DetectionStatsObject,
                     flows_analyzed |-> Len(edges)]),
             next_agents |->
                IF level.threat_level \in {"high", "critical"}
                THEN <<"investigator", "judge">>
                ELSE IF level.threat_level = "medium" THEN <<"investigator">>
                ELSE <<>>,
             should_continue |-> TRUE]]

\* what a holder of the Decision reads from it: the value of the object
\* that metadata["stats"] is
read_decision(decision, detection_stats) ==
    [decision EXCEPT !.metadata.stats = detection_stats]

\* Batches for process: flows of one target with their connection types, a
\* DNS flow above the packet threshold of its signature, the statistics the
\* loader computes from the edges or no statistics, and six nodes of which
\* one is a heavy hitter or no nodes.
MaxCalls == 2

ProcessEdge(id, connection_type) ==
    [id |-> id, connection_type |-> connection_type, source_id |-> id,
     target_id |-> <<"10.0.0.9">>, protocol |-> "TCP",
     packet_count |-> 100, bandwidth |-> 0]

DnsFlood(id) ==
    [id |-> id, connection_type |-> "normal", source_id |-> id,
     target_id |-> <<"10.0.0.9", 53>>, protocol |-> "UDP",
     packet_count |-> 12000, bandwidth |-> 0]

\* numbers of attack, suspicious and normal edges
EdgeMixes ==
    {<<0, 0, 0>>, <<1, 0, 0>>, <<0, 0, 1>>, <<1, 0, 3>>, <<3, 0, 7>>,
     <<2, 0, 3>>, <<1, 0, 1>>, <<2, 0, 1>>, <<0, 1, 4>>, <<0, 1, 3>>,
     <<5, 0, 0>>}

EdgesOf(mix) ==
    [i \in 1..(mix[1] + mix[2] + mix[3]) |->
        ProcessEdge(i, IF i <= mix[1] THEN "attack"
                       ELSE IF i <= mix[1] + mix[2] THEN "suspicious"
                       ELSE "normal")]

ProcessEdgeLists ==
    {EdgesOf(mix) : mix \in EdgeMixes} \cup {<<DnsFlood(1), ProcessEdge(2, "normal")>>}

\* the statistics of data_loader.get_traffic_batch
statistics_of(edges) ==
    LET count(connection_type) ==
            Cardinality({i \in 1..Len(edges) :
                            edges[i].connection_type = connection_type})
    IN  [total_edges      |-> Len(edges),
         attack_count     |-> count("attack"),
         suspicious_count |-> count("suspicious"),
         normal_count     |-> count("normal")]

HeavyNodes ==
    [i \in 1..6 |-> Node(i, [traffic_volume |-> IF i = 6 THEN 201 ELSE 0,
                             status |-> "normal"])]

\* the batches of one list of edges
BatchesOf(edges) ==
    {[edges |-> edges] @@ statistics @@ nodes :
        statistics \in {EmptyDict, [statistics |-> statistics_of(edges)]},
        nodes \in IF edges \in {EdgesOf(mix) : mix \in EdgeMixes}
                  THEN {EmptyDict, [nodes |-> HeavyNodes]}
                  ELSE {EmptyDict}}

ProcessBatches == UNION {BatchesOf(edges) : edges \in ProcessEdgeLists}

\* enhanced_detector = EnhancedDetectorAgent(): the counters of the agent,
\* and for each call of process its data, the AgentOutput it returned and
\* what the caller read from the Decision on return
InitProcess ==
    /\ enhanced = [detection_stats |-> [total_flows_analyzed |-> 0,
                                        attacks_detected |-> 0,
                                        suspicious_flagged |-> 0],
                   data |-> <<>>, outputs |-> <<>>, returned_as |-> <<>>]
    /\ state = initial_state(NoBatch, EmptyDict)
    /\ pc = "idle"
    /\ history = <<>>
    /\ llm = NoRunYet
    /\ events = <<>>
    /\ sessions = [r \in RunIds |-> NotStarted]
    /\ memory = NoCheckpoint

\* result = await enhanced_detector.process(AgentInput(data=batch))
Process ==
    /\ Len(enhanced.outputs) < MaxCalls
    /\ \E data \in ProcessBatches :
          LET call == process(enhanced.detection_stats, data)
          IN  enhanced' =
                 [detection_stats |-> call.detection_stats,
                  data        |-> Append(enhanced.data, data),
                  outputs     |-> Append(enhanced.outputs, call.output),
                  returned_as |-> Append(enhanced.returned_as,
                                    read_decision(call.output.decision,
                                                  call.detection_stats))]
    /\ UNCHANGED <<state, pc, history, llm, events, sessions, memory>>

NextProcess == Process

ProcessSpec == InitProcess /\ [][NextProcess]_vars

\* C22: a Decision returned by a stage executor is never changed
\* afterwards: what is read from the Decision of any call of
\* EnhancedDetectorAgent.process, metadata included, is what was read from
\* it when the call returned, whatever calls of process followed.
C22_DecisionIsNeverChanged ==
    \A i \in 1..Len(enhanced.outputs) :
        read_decision(enhanced.outputs[i].decision, enhanced.detection_stats)
            = enhanced.returned_as[i]

\* the detections of a type in the Decision of the i-th call
OfType(i, type) ==
    {j \in 1..Len(enhanced.outputs[i].decision.metadata.detections) :
        enhanced.outputs[i].decision.metadata.detections[j].type = type}

\* the number of edges of a connection type in the batch of the i-th call
EdgesOfType(i, connection_type) ==
    Cardinality({k \in 1..Len(enhanced.data[i].edges) :
                    enhanced.data[i].edges[k].connection_type = connection_type})

\* C26: for a batch with edges, high_attack_ratio is emitted exactly when
\* more than 0.3 of the edges of the batch are attack edges, critical when
\* more than 0.5 are and high otherwise, and elevated_suspicious_activity
\* (medium) exactly when more than 0.2 of the edges are suspicious, whether
\* or not the batch has a statistics field.
C26_RatiosOfTheEdges ==
    \A i \in 1..Len(enhanced.outputs) :
        LET total_edges == Len(enhanced.data[i].edges)
            attacks     == EdgesOfType(i, "attack")
            suspicious  == EdgesOfType(i, "suspicious")
            detections  == enhanced.outputs[i].decision.metadata.detections
        IN  total_edges > 0 =>
               /\ IF 10 * attacks > 3 * total_edges
                  THEN /\ Cardinality(OfType(i, "high_attack_ratio")) = 1
                       /\ \A j \in OfType(i, "high_attack_ratio") :
                             detections[j].severity =
                                IF 10 * attacks > 5 * total_edges
                                THEN "critical" ELSE "high"
                  ELSE OfType(i, "high_attack_ratio") = {}
               /\ IF 10 * suspicious > 2 * total_edges
                  THEN /\ Cardinality(OfType(i, "elevated_suspicious_activity")) = 1
                       /\ \A j \in OfType(i, "elevated_suspicious_activity") :
                             detections[j].severity = "medium"
                  ELSE OfType(i, "elevated_suspicious_activity") = {}

\* ------------------------------------------------------------------------
\* Frame of a stage execution (Spec)

\* C23: every stage execution writes one new Decision, into its own slot,
\* and leaves unchanged the input batch and the Decisions of all other
\* stages; the context is written by the orchestrator only and
\* final_decision by the judge only.  A stage executes in every step taken
\* while pc names it.
C23_StageFrame ==
    [][(pc \in Stages) =>
          /\ StageDecision(state, pc) = None
          /\ StageDecision(state', pc) # None
          /\ StageDecision(state', pc).agent_id = pc
          /\ \A other \in Stages \ {pc} :
                StageDecision(state', other) = StageDecision(state, other)
          /\ state'.input_data = state.input_data
          /\ pc # "orchestrator" => state'.context = state.context
          /\ pc # "judge" => state'.final_decision = state.final_decision
          /\ (pc = "judge" => state'.final_decision = state'.judge_decision)]_vars

\* the same for the stage executions that return
C23_ReturningStageFrame ==
    [][(pc \in Stages /\ pc' # "raised") =>
          /\ StageDecision(state, pc) = None
          /\ StageDecision(state', pc) # None
          /\ StageDecision(state', pc).agent_id = pc
          /\ \A other \in Stages \ {pc} :
                StageDecision(state', other) = StageDecision(state, other)
          /\ state'.input_data = state.input_data
          /\ pc # "orchestrator" => state'.context = state.context
          /\ pc # "judge" => state'.final_decision = state.final_decision
          /\ (pc = "judge" => state'.final_decision = state'.judge_decision)]_vars

\* C29: in no run do both the investigator and the monitor execute: when
\* the judge runs and afterwards, at most one of investigator_decision and
\* monitor_decision is set, and investigator_decision is set only if
\* detector_decision is set.
C29_InvestigatorOrMonitor ==
    /\ ~(Returned("investigator") /\ Returned("monitor"))
    /\ (pc = "judge" \/ Returned("judge")) =>
          \/ state.investigator_decision = None
          \/ state.monitor_decision = None
    /\ state.investigator_decision # None => state.detector_decision # None

\* the judge is about to run after the detector and the investigator, and
\* the monitor has not run
C29_Witness ==
    /\ pc = "judge"
    /\ history = <<"orchestrator", "detector", "investigator">>
    /\ state.investigator_decision # None
    /\ state.detector_decision # None
    /\ state.monitor_decision = None

\* C30: if the judge's executor fails, the run ends directly after the
\* judge without the mitigator, and final_decision is the judge's degraded
\* Decision, with the label judgment_error and the confidence 0.3.
C30_JudgeFailureEndsTheRun ==
    (Returned("judge") /\ ExecutorFailed("judge")) =>
        /\ pc = "END"
        /\ Last(history) = "judge"
        /\ ~Returned("mitigator")
        /\ state.mitigator_decision = None
        /\ state.final_decision = state.judge_decision
        /\ state.final_decision.agent_id = "judge"
        /\ state.final_decision.decision = Label("judgment", "error")
        /\ state.final_decision.confidence = 30

\* a run through the investigator in which the judge's call raised
C30_Witness ==
    /\ pc = "END"
    /\ llm["judge"] = "raise"
    /\ Returned("investigator")
    /\ state.final_decision.decision = Label("judgment", "error")
    /\ state.mitigator_decision = None

\* ------------------------------------------------------------------------
\* Raw statistics of the orchestrator (ScoreSpec)

\* the number of edges of the input batch with a connection type among types
EdgesWith(types) ==
    SumOver(state.input_data.edges,
            {k \in DOMAIN state.input_data.edges : k.connection_type \in types})

AllEdges == SumOver(state.input_data.edges, DOMAIN state.input_data.edges)

\* C28: in the statistics of the orchestrator's Decision, attack_count is
\* the number of edges with connection_type attack and suspicious_count the
\* number with connection_type suspicious; every other edge is counted as
\* normal (normal_count, kept in the orchestrator's analysis), so the three
\* counts add up to total_edges; the frequencies of attack_types add up to
\* attack_count.
C28_RawStatistics ==
    Returned("orchestrator") =>
        LET statistics == Coordinator.statistics
            analysis   == state.context["orchestrator_analysis"]
        IN  /\ statistics.attack_count = EdgesWith({"attack"})
            /\ statistics.suspicious_count = EdgesWith({"suspicious"})
            /\ analysis.normal_count = AllEdges - EdgesWith({"attack", "suspicious"})
            /\ statistics.total_edges = AllEdges
            /\ statistics.attack_count + statistics.suspicious_count
                  + analysis.normal_count = statistics.total_edges
            /\ SumOver(statistics.attack_types, DOMAIN statistics.attack_types)
                  = statistics.attack_count
            /\ analysis.attack_count = statistics.attack_count
            /\ analysis.suspicious_count = statistics.suspicious_count
            /\ analysis.total_edges = statistics.total_edges

\* a batch with edges of every kind, among them attacks without a type and
\* edges without a connection type, which are counted as normal
C28_Witness ==
    /\ Returned("orchestrator")
    /\ state.input_data.edges[Unlabelled] = 2
    /\ state.input_data.edges[Normal] = 3
    /\ state.input_data.edges[Suspicious] = 5
    /\ state.input_data.edges[Attack(Missing)] = 1
    /\ state.input_data.edges[Attack("Ransomware")] = 4
    /\ state.context["orchestrator_analysis"].normal_count = 5
    /\ Coordinator.statistics.attack_count >= 5
    /\ Coordinator.statistics.attack_types["Unknown"] = 1

====
